---- MODULE Spec2Model ----
(***************************************************************************)
(* Analytics pipeline of funeral-vision: swap parser, FIFO cost-basis      *)
(* engine and incremental sync coordinator.                                *)
(*                                                                         *)
(* Numbers.  The code computes with IEEE doubles.  The model uses          *)
(* fixed-point integers: one unit is 1e-6 SOL (or 1e-6 token), so the       *)
(* parser's dust threshold 0.000001 is 1 unit and its SOL threshold 0.0001 *)
(* is 100 units.  The inputs the specifications draw are chosen so that    *)
(* every division the code performs on them is exact.                      *)
(***************************************************************************)
EXTENDS Integers, Sequences, FiniteSets, TLC

VARIABLES
    \* ---- provider ----
    chain,           \* number of signatures of the wallet on chain; signature n is newer than n-1
    \* ---- store (better-sqlite3) ----
    wallet,          \* the wallets row of the address
    transactions,    \* transactions table: set of signatures stored
    trades,          \* trades table: rows in rowid order
    positions,       \* positions table: rows in insertion order
    lots,            \* cost_basis_lots table: rows in insertion order
    tieOrder,        \* how the store orders rows with equal ORDER BY key
    \* ---- coordinator ----
    runs,            \* the in-flight invocations of syncWalletTransactions, by id
    syncInProgress,  \* the syncInProgress map entry of the address (0: none)
    requests,        \* the HTTP requests awaiting a run
    nreq,            \* requests received so far (ids are 1..nreq)
    settled,         \* how the run that settled last ended
    lastSync,        \* history: sigs and tables left by the last completed run
    \* ---- pure-function harnesses ----
    tx,              \* parser input (enhanced transaction)
    parsed,          \* parser output
    fifo,            \* outcome of the last calculateFIFOPnL call of the FIFO harness
    out,             \* result of the last handler or function call of a harness
    \* ---- provider client (HeliusService) ----
    svc,             \* the clock, lastRequestTime and the callers of the shared service
    \* ---- profiler ----
    launch           \* the token_launches table and the launchCache of the process

vars == <<chain, wallet, transactions, trades, positions, lots, tieOrder,
          runs, syncInProgress, requests, nreq, settled, lastSync, tx, parsed, fifo,
          out, svc, launch>>

store == <<wallet, transactions, trades, positions, lots>>

-----------------------------------------------------------------------------
(* Generic helpers *)

Abs(x) == IF x < 0 THEN -x ELSE x
Min2(a, b) == IF a < b THEN a ELSE b
Max2(a, b) == IF a > b THEN a ELSE b

RECURSIVE SumSeq(_)
SumSeq(s) == IF s = <<>> THEN 0 ELSE Head(s) + SumSeq(Tail(s))

Range(s) == {s[i] : i \in 1..Len(s)}

\* JS Map<string, number>: a sequence of <<key, value>> in insertion order
MapHas(m, k) == \E i \in 1..Len(m) : m[i][1] = k
MapGet(m, k) == IF MapHas(m, k)
                THEN (LET i == CHOOSE j \in 1..Len(m) : m[j][1] = k IN m[i][2])
                ELSE 0
MapSet(m, k, v) == IF MapHas(m, k)
                   THEN [i \in 1..Len(m) |-> IF m[i][1] = k THEN <<k, v>> ELSE m[i]]
                   ELSE Append(m, <<k, v>>)
MapDelete(m, k) == SelectSeq(m, LAMBDA e : e[1] # k)

-----------------------------------------------------------------------------
(* Constants of packages/shared *)

LAMPORTS_PER_SOL == 1000000000

\* NATIVE_SOL_MINT and WSOL_MINT are the same string in the source
NATIVE_SOL_MINT == "So11"
WSOL_MINT == "So11"
SYSTEM_PROGRAM == "1111"

INTERMEDIATE_TOKENS ==
    {"USDC", "USDT", "USDS", "USD1", "stSOL", "mSOL", "bSOL", "jitoSOL", NATIVE_SOL_MINT}

\* lamports -> SOL, in units of 1e-6 SOL
ToSol(lamports) ==
    IF lamports >= 0 THEN lamports \div (LAMPORTS_PER_SOL \div 1000000)
                     ELSE -((-lamports) \div (LAMPORTS_PER_SOL \div 1000000))

W == "W"      \* the tracked wallet address
O == "O"      \* any other account
NoSwap == [none |-> TRUE]

-----------------------------------------------------------------------------
(* Swap parser *)

isSOLOrWSol(mint) == mint = NATIVE_SOL_MINT \/ mint = WSOL_MINT \/ mint = SYSTEM_PROGRAM

\* Number(raw.tokenAmount) / 10^decimals, in units of 1e-6 token
parseTokenAmount(rawAmount) ==
    IF rawAmount.tokenAmount >= 0
    THEN (rawAmount.tokenAmount * 1000000) \div (10 ^ rawAmount.decimals)
    ELSE -(((-rawAmount.tokenAmount) * 1000000) \div (10 ^ rawAmount.decimals))

\* solAmount / tokenAmount; every caller passes tokenAmount # 0
PricePerToken(solAmount, tokenAmount) ==
    IF tokenAmount = 0 THEN 0 ELSE solAmount \div tokenAmount

TradeId(signature, type, tokenMint) == <<signature, type, tokenMint>>

createTrade(t, walletAddress, type, tokenMint, tokenAmount, solAmount) ==
    [id            |-> TradeId(t.signature, type, tokenMint),
     walletAddress |-> walletAddress,
     signature     |-> t.signature,
     timestamp     |-> t.timestamp,
     type          |-> type,
     tokenMint     |-> tokenMint,
     tokenAmount   |-> tokenAmount,
     solAmount     |-> solAmount,
     pricePerToken |-> PricePerToken(solAmount, tokenAmount)]

\* ---- Method 3: swap event ----
RECURSIVE SwapSide(_, _, _, _, _)
SwapSide(t, walletAddress, type, toks, solAmount) ==
    IF toks = <<>> THEN <<>>
    ELSE LET tk == Head(toks)
             tokenAmount == parseTokenAmount(tk.rawTokenAmount)
             rest == SwapSide(t, walletAddress, type, Tail(toks), solAmount)
         IN  IF isSOLOrWSol(tk.mint) THEN rest
             ELSE IF tokenAmount > 0 /\ solAmount > 0
                  THEN <<createTrade(t, walletAddress, type, tk.mint, tokenAmount, solAmount)>>
                       \o rest
                  ELSE rest

parseFromSwapEvent(t, walletAddress) ==
    IF t.swap = NoSwap THEN <<>>
    ELSE LET swap == t.swap
             buys == IF swap.nativeInput # 0 /\ Len(swap.tokenOutputs) > 0
                     THEN SwapSide(t, walletAddress, "buy", swap.tokenOutputs,
                                   ToSol(swap.nativeInput))
                     ELSE <<>>
             sells == IF swap.nativeOutput # 0 /\ Len(swap.tokenInputs) > 0
                      THEN SwapSide(t, walletAddress, "sell", swap.tokenInputs,
                                    ToSol(swap.nativeOutput))
                      ELSE <<>>
         IN  buys \o sells

\* ---- Method 2: accountData balance changes ----
RECURSIVE AccountSolChange(_, _)
AccountSolChange(accs, walletAddress) ==
    IF accs = <<>> THEN 0
    ELSE (IF Head(accs).account = walletAddress
          THEN ToSol(Head(accs).nativeBalanceChange) ELSE 0)
         + AccountSolChange(Tail(accs), walletAddress)

RECURSIVE TokenChangesOf(_, _, _)
TokenChangesOf(tbcs, walletAddress, m) ==
    IF tbcs = <<>> THEN m
    ELSE LET tbc == Head(tbcs)
             m1 == IF tbc.userAccount = walletAddress /\ ~isSOLOrWSol(tbc.mint)
                   THEN MapSet(m, tbc.mint,
                               MapGet(m, tbc.mint) + parseTokenAmount(tbc.rawTokenAmount))
                   ELSE m
         IN  TokenChangesOf(Tail(tbcs), walletAddress, m1)

RECURSIVE TokenChanges(_, _, _)
TokenChanges(accs, walletAddress, m) ==
    IF accs = <<>> THEN m
    ELSE TokenChanges(Tail(accs), walletAddress,
                      TokenChangesOf(Head(accs).tokenBalanceChanges, walletAddress, m))

RECURSIVE BalanceTrades(_, _, _, _)
BalanceTrades(t, walletAddress, m, solChange) ==
    IF m = <<>> THEN <<>>
    ELSE LET mint == Head(m)[1]
             tokenDelta == Head(m)[2]
             rest == BalanceTrades(t, walletAddress, Tail(m), solChange)
         IN  IF Abs(tokenDelta) < 1 THEN rest
             ELSE IF tokenDelta > 0
                  THEN <<createTrade(t, walletAddress, "buy", mint, tokenDelta,
                                     Abs(solChange))>> \o rest
                  ELSE <<createTrade(t, walletAddress, "sell", mint, Abs(tokenDelta),
                                     Max2(0, solChange))>> \o rest

parseFromBalanceChanges(t, walletAddress) ==
    BalanceTrades(t, walletAddress, TokenChanges(t.accountData, walletAddress, <<>>),
                  AccountSolChange(t.accountData, walletAddress))

\* ---- Method 1: token transfers and native transfers ----
RECURSIVE NativeSolDelta(_, _)
NativeSolDelta(ts, walletAddress) ==
    IF ts = <<>> THEN 0
    ELSE LET t == Head(ts)
         IN  (IF t.fromUserAccount = walletAddress THEN -ToSol(t.amount) ELSE 0)
           + (IF t.toUserAccount = walletAddress THEN ToSol(t.amount) ELSE 0)
           + NativeSolDelta(Tail(ts), walletAddress)

\* currentDelta is read once per transfer, before both tests
RECURSIVE TokenDeltas(_, _, _)
TokenDeltas(ts, walletAddress, m) ==
    IF ts = <<>> THEN m
    ELSE LET t == Head(ts)
             currentDelta == MapGet(m, t.mint)
             m1 == IF t.fromUserAccount = walletAddress
                   THEN MapSet(m, t.mint, currentDelta - t.tokenAmount) ELSE m
             m2 == IF t.toUserAccount = walletAddress
                   THEN MapSet(m1, t.mint, currentDelta + t.tokenAmount) ELSE m1
         IN  TokenDeltas(Tail(ts), walletAddress, m2)

NotDust(e) == ~(Abs(e[2]) < 1)
IsIntermediate(e) == NotDust(e) /\ e[1] \in INTERMEDIATE_TOKENS
IsTarget(e) == NotDust(e) /\ e[1] \notin INTERMEDIATE_TOKENS

RECURSIVE SumAbs(_)
SumAbs(m) == IF m = <<>> THEN 0 ELSE Abs(Head(m)[2]) + SumAbs(Tail(m))
RECURSIVE SumDelta(_)
SumDelta(m) == IF m = <<>> THEN 0 ELSE Head(m)[2] + SumDelta(Tail(m))

\* Math.abs(x) * (Math.abs(tokenDelta) / total)
Proportional(x, tokenDelta, total) == (x * Abs(tokenDelta)) \div total

\* case 1: target tokens with a SOL flow
RECURSIVE DirectTrades(_, _, _, _, _)
DirectTrades(t, walletAddress, m, solDelta, totalTargetValue) ==
    IF m = <<>> THEN <<>>
    ELSE LET mint == Head(m)[1]
             tokenDelta == Head(m)[2]
             proportionalSol == Proportional(Abs(solDelta), tokenDelta, totalTargetValue)
             rest == DirectTrades(t, walletAddress, Tail(m), solDelta, totalTargetValue)
         IN  IF solDelta < 0 /\ tokenDelta > 0
             THEN <<createTrade(t, walletAddress, "buy", mint, tokenDelta, proportionalSol)>>
                  \o rest
             ELSE IF solDelta > 0 /\ tokenDelta < 0
                  THEN <<createTrade(t, walletAddress, "sell", mint, Abs(tokenDelta),
                                     proportionalSol)>> \o rest
                  ELSE rest

\* case 2: target tokens, no SOL flow, intermediate flow as proxy (value / 100)
RECURSIVE ProxyTrades(_, _, _, _, _, _, _)
ProxyTrades(t, walletAddress, m, solDelta, total, intermediateValue, intermediateDirection) ==
    IF m = <<>> THEN <<>>
    ELSE LET mint == Head(m)[1]
             tokenDelta == Head(m)[2]
             proportionalValue == Proportional(intermediateValue, tokenDelta, total)
             rest == ProxyTrades(t, walletAddress, Tail(m), solDelta, total,
                                 intermediateValue, intermediateDirection)
         IN  IF intermediateDirection < 0 /\ tokenDelta > 0
             THEN <<createTrade(t, walletAddress, "buy", mint, tokenDelta,
                                IF Abs(solDelta) > 100 THEN Abs(solDelta)
                                ELSE proportionalValue \div 100)>> \o rest
             ELSE IF intermediateDirection > 0 /\ tokenDelta < 0
                  THEN <<createTrade(t, walletAddress, "sell", mint, Abs(tokenDelta),
                                     IF solDelta > 100 THEN solDelta
                                     ELSE proportionalValue \div 100)>> \o rest
                  ELSE rest

\* case 3: airdrops / free mints
RECURSIVE AirdropTrades(_, _, _)
AirdropTrades(t, walletAddress, m) ==
    IF m = <<>> THEN <<>>
    ELSE LET rest == AirdropTrades(t, walletAddress, Tail(m))
         IN  IF Head(m)[2] > 0
             THEN <<createTrade(t, walletAddress, "buy", Head(m)[1], Head(m)[2], 0)>> \o rest
             ELSE rest

\* the three cases, given the wallet's net SOL flow and its token deltas
TransferTrades(t, walletAddress, solDelta, intermediateDeltas, targetDeltas) ==
    IF Len(targetDeltas) > 0 /\ Abs(solDelta) > 100
    THEN DirectTrades(t, walletAddress, targetDeltas, solDelta, SumAbs(targetDeltas))
    ELSE IF Len(targetDeltas) > 0 /\ Len(intermediateDeltas) > 0
         THEN ProxyTrades(t, walletAddress, targetDeltas, solDelta, SumAbs(targetDeltas),
                          SumAbs(intermediateDeltas), SumDelta(intermediateDeltas))
         ELSE IF Len(targetDeltas) > 0
              THEN AirdropTrades(t, walletAddress, targetDeltas)
              ELSE <<>>

\* tokenDeltas without the WSOL entry, split into intermediate and target
SplitDeltas(t, walletAddress, nativeDelta, allDeltas) ==
    TransferTrades(t, walletAddress, nativeDelta + MapGet(allDeltas, WSOL_MINT),
                   SelectSeq(MapDelete(MapDelete(allDeltas, WSOL_MINT), NATIVE_SOL_MINT),
                             IsIntermediate),
                   SelectSeq(MapDelete(MapDelete(allDeltas, WSOL_MINT), NATIVE_SOL_MINT),
                             IsTarget))

parseFromTransfers(t, walletAddress) ==
    SplitDeltas(t, walletAddress, NativeSolDelta(t.nativeTransfers, walletAddress),
                TokenDeltas(t.tokenTransfers, walletAddress, <<>>))

\* the first strategy with a non-empty result wins
\* the strategies tried from the last to the first (what C20 rules out)
FirstNonEmptyReversed(transferTrades, balanceChangeTrades, swapTrades) ==
    IF Len(swapTrades) > 0 THEN swapTrades
    ELSE IF Len(balanceChangeTrades) > 0 THEN balanceChangeTrades
    ELSE IF Len(transferTrades) > 0 THEN transferTrades
    ELSE <<>>

FirstNonEmpty(transferTrades, balanceChangeTrades, swapTrades) ==
    IF Len(transferTrades) > 0 THEN transferTrades
    ELSE IF Len(balanceChangeTrades) > 0 THEN balanceChangeTrades
    ELSE IF Len(swapTrades) > 0 THEN swapTrades
    ELSE <<>>

parseEnhancedTransaction(t, walletAddress) ==
    IF t.transactionError THEN <<>>
    ELSE FirstNonEmpty(parseFromTransfers(t, walletAddress),
                       parseFromBalanceChanges(t, walletAddress),
                       parseFromSwapEvent(t, walletAddress))

RECURSIVE parseEnhancedTransactions(_, _)
parseEnhancedTransactions(txs, walletAddress) ==
    IF txs = <<>> THEN <<>>
    ELSE parseEnhancedTransaction(Head(txs), walletAddress)
         \o parseEnhancedTransactions(Tail(txs), walletAddress)

-----------------------------------------------------------------------------
(* Exact rationals <<num, den>>, den > 0, in lowest terms *)

RECURSIVE Gcd(_, _)
Gcd(a, b) == IF b = 0 THEN a ELSE Gcd(b, a % b)
Rat(n, d) == LET g == Gcd(Abs(n), d) IN IF g = 0 THEN <<0, 1>> ELSE <<n \div g, d \div g>>
RatAdd(x, y) == Rat(x[1] * y[2] + y[1] * x[2], x[2] * y[2])
RatSub(x, y) == Rat(x[1] * y[2] - y[1] * x[2], x[2] * y[2])
RatMul(k, x) == Rat(k * x[1], x[2])

-----------------------------------------------------------------------------
(* Store queries *)

\* a trades insert without conflict clause and without primary key: every
\* call adds a row (what C5 rules out)
insertTradeNoConflict(rows, trade) == Append(rows, trade)

\* INSERT OR REPLACE INTO trades: the row with the same id is deleted and the
\* new row gets a fresh rowid (it goes to the end)
insertTrade(rows, trade) ==
    Append(SelectSeq(rows, LAMBDA r : r.id # trade.id), trade)

RECURSIVE insertTrades(_, _)
insertTrades(rows, newTrades) ==
    IF newTrades = <<>> THEN rows
    ELSE insertTrades(insertTrade(rows, Head(newTrades)), Tail(newTrades))

Reverse(s) == [i \in 1..Len(s) |-> s[Len(s) + 1 - i]]

\* stable insertion of t after every element whose key is not behind it
RECURSIVE InsertDesc(_, _)
InsertDesc(sorted, t) ==
    IF sorted = <<>> THEN <<t>>
    ELSE IF Head(sorted).timestamp >= t.timestamp
         THEN <<Head(sorted)>> \o InsertDesc(Tail(sorted), t)
         ELSE <<t>> \o sorted
RECURSIVE SortDesc(_, _)
SortDesc(s, acc) == IF s = <<>> THEN acc ELSE SortDesc(Tail(s), InsertDesc(acc, Head(s)))

RECURSIVE InsertAsc(_, _)
InsertAsc(sorted, t) ==
    IF sorted = <<>> THEN <<t>>
    ELSE IF Head(sorted).timestamp <= t.timestamp
         THEN <<Head(sorted)>> \o InsertAsc(Tail(sorted), t)
         ELSE <<t>> \o sorted
RECURSIVE SortAsc(_, _)
SortAsc(s, acc) == IF s = <<>> THEN acc ELSE SortAsc(Tail(s), InsertAsc(acc, Head(s)))

\* SELECT * FROM trades WHERE wallet_address = ? ORDER BY timestamp DESC.
\* SQL leaves the order of rows with equal timestamp open; the store returns
\* them by rowid, ascending or descending depending on the query plan.
getTradesForWallet(rows, order) ==
    SortDesc(IF order = "asc" THEN rows ELSE Reverse(rows), <<>>)

-----------------------------------------------------------------------------
(* FIFO engine *)

\* a matching loop that consumes the newest lot first (what C22 rules out)
RECURSIVE MatchLotsNewestFirst(_, _)
MatchLotsNewestFirst(buyLots, sellRemaining) ==
    IF buyLots = <<>> THEN [lots |-> <<>>, cost |-> 0, left |-> sellRemaining]
    ELSE LET r == MatchLotsNewestFirst(Tail(buyLots), sellRemaining)
             matchAmount == Max2(0, Min2(Head(buyLots).remaining, r.left))
         IN  [lots |-> <<[Head(buyLots) EXCEPT !.remaining = @ - matchAmount]>> \o r.lots,
              cost |-> matchAmount * Head(buyLots).price + r.cost,
              left |-> r.left - matchAmount]

\* a matching loop that tests and matches lot.amount instead of lot.remaining,
\* so that a lot consumed by an earlier sell is charged again (what C7 rules
\* out)
RECURSIVE MatchLotsByAmount(_, _)
MatchLotsByAmount(buyLots, sellRemaining) ==
    IF buyLots = <<>> THEN [lots |-> <<>>, cost |-> 0]
    ELSE IF sellRemaining <= 0 THEN [lots |-> buyLots, cost |-> 0]
    ELSE LET lot == Head(buyLots)
             matchAmount == Min2(lot.amount, sellRemaining)
             r == MatchLotsByAmount(Tail(buyLots), sellRemaining - matchAmount)
         IN  [lots |-> <<[lot EXCEPT !.remaining = Max2(0, @ - matchAmount)]>> \o r.lots,
              cost |-> matchAmount * lot.price + r.cost]

\* the sell matching loop: for (const lot of buyLots) { ... }
RECURSIVE MatchLots(_, _)
MatchLots(buyLots, sellRemaining) ==
    IF buyLots = <<>> THEN [lots |-> <<>>, cost |-> 0]
    ELSE IF sellRemaining <= 0 THEN [lots |-> buyLots, cost |-> 0]
    ELSE LET lot == Head(buyLots)
         IN  IF lot.remaining <= 0
             THEN LET r == MatchLots(Tail(buyLots), sellRemaining)
                  IN  [lots |-> <<lot>> \o r.lots, cost |-> r.cost]
             ELSE LET matchAmount == Min2(lot.remaining, sellRemaining)
                      r == MatchLots(Tail(buyLots), sellRemaining - matchAmount)
                  IN  [lots |-> <<[lot EXCEPT !.remaining = @ - matchAmount]>> \o r.lots,
                       cost |-> matchAmount * lot.price + r.cost]

FifoStart ==
    [buyLots |-> <<>>, totalBought |-> 0, totalSold |-> 0, totalCostBasis |-> 0,
     totalProceeds |-> 0, realizedPnL |-> 0, winCount |-> 0]

\* one iteration of: for (const trade of sortedTrades)
FifoStep(acc, trade) ==
    IF trade.type = "buy"
    THEN [acc EXCEPT
            !.buyLots = Append(@, [tradeId |-> trade.id, amount |-> trade.tokenAmount,
                                   remaining |-> trade.tokenAmount,
                                   price |-> trade.pricePerToken,
                                   timestamp |-> trade.timestamp]),
            !.totalBought = @ + trade.tokenAmount,
            !.totalCostBasis = @ + trade.solAmount]
    ELSE LET m == MatchLots(acc.buyLots, trade.tokenAmount)
             sellProfit == trade.solAmount - m.cost
         IN  [acc EXCEPT
                !.buyLots = m.lots,
                !.realizedPnL = @ + sellProfit,
                !.totalSold = @ + trade.tokenAmount,
                !.totalProceeds = @ + trade.solAmount,
                !.winCount = IF sellProfit > 0 THEN @ + 1 ELSE @]

RECURSIVE FifoLoop(_, _)
FifoLoop(acc, sortedTrades) ==
    IF sortedTrades = <<>> THEN acc
    ELSE FifoLoop(FifoStep(acc, Head(sortedTrades)), Tail(sortedTrades))

\* tradesByToken: the mints in order of first appearance
RECURSIVE MintsOf(_, _)
MintsOf(ts, seen) ==
    IF ts = <<>> THEN seen
    ELSE MintsOf(Tail(ts),
                 IF \E i \in 1..Len(seen) : seen[i] = Head(ts).tokenMint
                 THEN seen ELSE Append(seen, Head(ts).tokenMint))

TradesOfToken(ts, tokenMint) == SelectSeq(ts, LAMBDA t : t.tokenMint = tokenMint)

\* [...tokenTrades].sort((a, b) => a.timestamp - b.timestamp): stable
SortedTrades(ts, tokenMint) == SortAsc(TradesOfToken(ts, tokenMint), <<>>)

PositionOf(tokenMint, sortedTrades, acc) ==
    [tokenMint       |-> tokenMint,
     totalBought     |-> acc.totalBought,
     totalSold       |-> acc.totalSold,
     totalCostBasis  |-> acc.totalCostBasis,
     totalProceeds   |-> acc.totalProceeds,
     remainingTokens |-> acc.totalBought - acc.totalSold,
     averageBuyPrice |-> IF acc.totalBought > 0
                         THEN Rat(acc.totalCostBasis, acc.totalBought) ELSE <<0, 1>>,
     realizedPnL     |-> acc.realizedPnL,
     tradeCount      |-> Len(sortedTrades),
     winCount        |-> acc.winCount,
     firstTradeAt    |-> sortedTrades[1].timestamp,
     lastTradeAt     |-> sortedTrades[Len(sortedTrades)].timestamp]

LotRow(tokenMint, lot) ==
    [token_mint |-> tokenMint, trade_id |-> lot.tradeId, timestamp |-> lot.timestamp,
     amount |-> lot.amount, remaining_amount |-> lot.remaining,
     price_per_token |-> lot.price]

\* the statements one token issues: an insertLot per lot with remaining > 0,
\* then the upsertPosition
HasRemaining(lot) == lot.remaining > 0

LotStatements(tokenMint, open) ==
    [i \in 1..Len(open) |-> [op |-> "insertLot", row |-> LotRow(tokenMint, open[i])]]

StatementsOf(tokenMint, sortedTrades, acc) ==
    LotStatements(tokenMint, SelectSeq(acc.buyLots, HasRemaining))
    \o <<[op |-> "upsertPosition", row |-> PositionOf(tokenMint, sortedTrades, acc)]>>

FifoOf(tokenMint, sortedTrades) ==
    StatementsOf(tokenMint, sortedTrades, FifoLoop(FifoStart, sortedTrades))

TokenStatements(ts, tokenMint) == FifoOf(tokenMint, SortedTrades(ts, tokenMint))

RECURSIVE AllTokenStatements(_, _)
AllTokenStatements(ts, mints) ==
    IF mints = <<>> THEN <<>>
    ELSE TokenStatements(ts, Head(mints)) \o AllTokenStatements(ts, Tail(mints))

\* every store statement of calculateFIFOPnL, in program order
FifoStatements(ts) ==
    <<[op |-> "deleteLotsByWallet"], [op |-> "deletePositionsByWallet"]>>
    \o AllTokenStatements(ts, MintsOf(ts, <<>>))

upsertPosition(rows, row) ==
    IF \E i \in 1..Len(rows) : rows[i].tokenMint = row.tokenMint
    THEN [i \in 1..Len(rows) |-> IF rows[i].tokenMint = row.tokenMint THEN row ELSE rows[i]]
    ELSE Append(rows, row)

\* one statement applied to <<positions, lots>>
RunStatement(tables, st) ==
    CASE st.op = "deleteLotsByWallet"      -> <<tables[1], <<>>>>
      [] st.op = "deletePositionsByWallet" -> <<<<>>, tables[2]>>
      [] st.op = "insertLot"               -> <<tables[1], Append(tables[2], st.row)>>
      [] st.op = "upsertPosition"          -> <<upsertPosition(tables[1], st.row), tables[2]>>

RECURSIVE RunStatements(_, _, _)
RunStatements(tables, sts, n) ==
    IF n = 0 \/ sts = <<>> THEN tables
    ELSE RunStatements(RunStatement(tables, Head(sts)), Tail(sts), n - 1)

\* calculateFIFOPnL(walletAddress, trades) where statement number failAt throws
\* (failAt = 0, or beyond the last statement: no store error).  Every statement
\* is its own implicit transaction: the ones before failAt stay committed.
RunFifo(tables, sts, failAt) ==
    [failed |-> failAt \in 1..Len(sts),
     tables |-> RunStatements(tables, sts,
                              IF failAt \in 1..Len(sts) THEN failAt - 1 ELSE Len(sts))]

calculateFIFOPnL(tables, ts, failAt) == RunFifo(tables, FifoStatements(ts), failAt)

-----------------------------------------------------------------------------
(* Period summarizer: the part of generatePnLSummary(wallet, trades, 'all')
   that the coordinator writes to the wallets row *)

PositionFor(ps, tokenMint) ==
    LET i == CHOOSE j \in 1..Len(ps) : ps[j].tokenMint = tokenMint IN ps[i]

\* the positions calculateFIFOPnL returns (in memory)
PositionAfter(tokenMint, sortedTrades) ==
    PositionOf(tokenMint, sortedTrades, FifoLoop(FifoStart, sortedTrades))

PositionsOfMints(ts, mints) ==
    [i \in 1..Len(mints) |-> PositionAfter(mints[i], SortedTrades(ts, mints[i]))]

FifoPositions(ts) == PositionsOfMints(ts, MintsOf(ts, <<>>))

RECURSIVE PeriodPnL(_, _)
PeriodPnL(sells, averageBuyPrice) ==
    IF sells = <<>> THEN <<0, 1>>
    ELSE RatAdd(RatSub(<<Head(sells).solAmount, 1>>,
                       RatMul(Head(sells).tokenAmount, averageBuyPrice)),
                PeriodPnL(Tail(sells), averageBuyPrice))

RECURSIVE SummaryPnL(_, _, _)
SummaryPnL(ts, mints, allPositions) ==
    IF mints = <<>> THEN <<0, 1>>
    ELSE LET periodSells == SelectSeq(ts, LAMBDA t : t.tokenMint = Head(mints)
                                                     /\ t.type = "sell")
             fullPosition == PositionFor(allPositions, Head(mints))
         IN  RatAdd(PeriodPnL(periodSells, fullPosition.averageBuyPrice),
                    SummaryPnL(ts, Tail(mints), allPositions))

RECURSIVE SolVolume(_)
SolVolume(ts) == IF ts = <<>> THEN 0 ELSE Head(ts).solAmount + SolVolume(Tail(ts))

\* periodWinCount: the sells of the period with profit > 0
RECURSIVE PeriodWinCount(_, _)
PeriodWinCount(sells, averageBuyPrice) ==
    IF sells = <<>> THEN 0
    ELSE (IF RatSub(<<Head(sells).solAmount, 1>>,
                    RatMul(Head(sells).tokenAmount, averageBuyPrice))[1] > 0
          THEN 1 ELSE 0)
         + PeriodWinCount(Tail(sells), averageBuyPrice)

\* what one token adds to winCount and lossCount:
\* if (periodRealizedPnL > 0) winCount += periodWinCount;
\* else if (periodRealizedPnL < 0) lossCount += periodSells.length - periodWinCount
TokenCounts(periodSells, periodRealizedPnL, periodWinCount) ==
    IF periodRealizedPnL[1] > 0 THEN [winCount |-> periodWinCount, lossCount |-> 0]
    ELSE IF periodRealizedPnL[1] < 0
    THEN [winCount |-> 0, lossCount |-> Len(periodSells) - periodWinCount]
    ELSE [winCount |-> 0, lossCount |-> 0]

TokenCountsOf(periodSells, averageBuyPrice) ==
    TokenCounts(periodSells, PeriodPnL(periodSells, averageBuyPrice),
                PeriodWinCount(periodSells, averageBuyPrice))

AddCounts(a, b) ==
    [winCount |-> a.winCount + b.winCount, lossCount |-> a.lossCount + b.lossCount]

RECURSIVE SummaryCounts(_, _, _)
SummaryCounts(ts, mints, allPositions) ==
    IF mints = <<>> THEN [winCount |-> 0, lossCount |-> 0]
    ELSE AddCounts(
             TokenCountsOf(SelectSeq(ts, LAMBDA t : t.tokenMint = Head(mints)
                                                    /\ t.type = "sell"),
                           PositionFor(allPositions, Head(mints)).averageBuyPrice),
             SummaryCounts(ts, Tail(mints), allPositions))

\* winRate = totalSells > 0 ? (winCount / totalSells) * 100 : 0
WinRate(winCount, totalSells) ==
    IF totalSells > 0 THEN Rat(winCount * 100, totalSells) ELSE <<0, 1>>

\* seconds of a timeframe; 0 stands for the null of 'all'
TIMEFRAME_SECONDS ==
    [timeframe \in {"24h", "7d", "30d", "90d", "all"} |->
        CASE timeframe = "24h" -> 24 * 60 * 60
          [] timeframe = "7d"  -> 7 * 24 * 60 * 60
          [] timeframe = "30d" -> 30 * 24 * 60 * 60
          [] timeframe = "90d" -> 90 * 24 * 60 * 60
          [] OTHER -> 0]

\* periodStart, where now = Math.floor(Date.now() / 1000)
PeriodStart(timeframe, now) ==
    IF TIMEFRAME_SECONDS[timeframe] # 0 THEN now - TIMEFRAME_SECONDS[timeframe] ELSE 0

\* tradesInPeriod
TradesInPeriod(allTrades, timeframe, now) ==
    IF TIMEFRAME_SECONDS[timeframe] # 0
    THEN SelectSeq(allTrades, LAMBDA t : t.timestamp >= PeriodStart(timeframe, now))
    ELSE allTrades

\* a summary whose cost basis comes from the trades of the period alone
\* (what C17 rules out)
PeriodSummaryOfWindow(allTrades, tradesInPeriod) ==
    [totalRealizedPnL |-> SummaryPnL(tradesInPeriod, MintsOf(tradesInPeriod, <<>>),
                                     FifoPositions(tradesInPeriod)),
     totalTrades      |-> Len(tradesInPeriod),
     totalSells       |-> Len(SelectSeq(tradesInPeriod, LAMBDA t : t.type = "sell")),
     counts           |-> SummaryCounts(tradesInPeriod, MintsOf(tradesInPeriod, <<>>),
                                        FifoPositions(tradesInPeriod)),
     totalSolVolume   |-> SolVolume(tradesInPeriod)]

\* the summary of the period, with the positions of calculateFIFOPnL over allTrades
PeriodSummary(allTrades, tradesInPeriod) ==
    [totalRealizedPnL |-> SummaryPnL(tradesInPeriod, MintsOf(tradesInPeriod, <<>>),
                                     FifoPositions(allTrades)),
     totalTrades      |-> Len(tradesInPeriod),
     totalSells       |-> Len(SelectSeq(tradesInPeriod, LAMBDA t : t.type = "sell")),
     counts           |-> SummaryCounts(tradesInPeriod, MintsOf(tradesInPeriod, <<>>),
                                        FifoPositions(allTrades)),
     totalSolVolume   |-> SolVolume(tradesInPeriod)]

\* generatePnLSummary(walletAddress, allTrades, timeframe) called at time now
generatePnLSummaryAt(allTrades, timeframe, now) ==
    PeriodSummary(allTrades, TradesInPeriod(allTrades, timeframe, now))

\* generatePnLSummary(walletAddress, allTrades): timeframe 'all'
generatePnLSummary(allTrades) == PeriodSummary(allTrades, allTrades)

-----------------------------------------------------------------------------
(* Provider *)

\* block time of a signature: non-decreasing along the chain, two signatures
\* per second
TsOf(sig) == 10 * ((sig + 1) \div 2)

\* the enhanced record the provider returns for a signature (a fixed history:
\* a buy of TOK, a sell of TOK in the same second, a SOL -> USDC swap, then the
\* same again with the buy at a higher price, ...)
TxOf(sig) ==
    LET k == ((sig - 1) % 3) + 1
        base == [signature |-> sig, timestamp |-> TsOf(sig), transactionError |-> FALSE,
                 nativeTransfers |-> <<>>, tokenTransfers |-> <<>>, accountData |-> <<>>,
                 swap |-> NoSwap]
    IN  CASE k = 1 -> [base EXCEPT
                 !.nativeTransfers = <<[fromUserAccount |-> W, toUserAccount |-> O,
                                        amount |-> 2000000 * (1 + (sig - 1) \div 3)]>>,
                 !.tokenTransfers = <<[fromUserAccount |-> O, toUserAccount |-> W,
                                       mint |-> "TOK", tokenAmount |-> 1000]>>]
          [] k = 2 -> [base EXCEPT
                 !.nativeTransfers = <<[fromUserAccount |-> O, toUserAccount |-> W,
                                        amount |-> 3000000]>>,
                 !.tokenTransfers = <<[fromUserAccount |-> W, toUserAccount |-> O,
                                       mint |-> "TOK", tokenAmount |-> 1000]>>]
          [] k = 3 -> [base EXCEPT
                 !.nativeTransfers = <<[fromUserAccount |-> W, toUserAccount |-> O,
                                        amount |-> 2000000]>>,
                 !.tokenTransfers = <<[fromUserAccount |-> O, toUserAccount |-> W,
                                       mint |-> "USDC", tokenAmount |-> 2000]>>,
                 !.accountData = <<[account |-> W, nativeBalanceChange |-> -2000000,
                                    tokenBalanceChanges |-> <<>>],
                                   [account |-> O, nativeBalanceChange |-> 0,
                                    tokenBalanceChanges |->
                                        <<[mint |-> "USDC", userAccount |-> W,
                                           rawTokenAmount |-> [tokenAmount |-> 2000,
                                                               decimals |-> 6]]>>]>>]

\* connection.getSignaturesForAddress(address, {limit, before, until}) on a chain
\* of n signatures: newest first, older than `before`, newer than `until`
getSignaturesForAddress(n, before, until, limit) ==
    LET hi == IF before = 0 THEN n ELSE before - 1
        lo == until + 1
        len == Min2(limit, Max2(0, hi - lo + 1))
    IN  [i \in 1..len |-> hi - i + 1]

EnhancedOf(sigs) == [i \in 1..Len(sigs) |-> TxOf(sigs[i])]

-----------------------------------------------------------------------------
(* Bounds of the model *)

MaxChain == 2        \* signatures the chain grows to
MaxRequests == 2     \* HTTP requests per behaviour
PageLimit == 2       \* page size of getSignaturesForAddress (1000 in the source)
PageCap == 2         \* maxSignatures in pages (5000 / 1000 = 5 in the source)
BatchSize == 1       \* batch size of parseAllTransactions (100 in the source)

MaxSignatures == PageCap * PageLimit

-----------------------------------------------------------------------------
(* Sync coordinator *)

NoWallet ==
    [exists |-> FALSE, name |-> "", last_synced_at |-> FALSE, first_synced_at |-> 0,
     last_signature |-> 0, total_transactions |-> 0, total_realized_pnl |-> <<>>,
     total_sol_volume |-> -1, total_trades |-> -1]

\* runs holds the runs in flight; a run leaves it when it settles
InFlightRuns == DOMAIN runs

\* the run has issued at least one provider call
Called(r) == ~(runs[r].pc = "signatures" /\ runs[r].allSignatures = <<>>)

\* syncWalletTransactions up to its first await: the cursor is read unless
\* forceRefresh
NewRun(kind, forceRefresh) ==
    [pc |-> "signatures", kind |-> kind, forceRefresh |-> forceRefresh,
     lastSignature |-> IF forceRefresh THEN 0 ELSE wallet.last_signature,
     allSignatures |-> <<>>, parsedCount |-> 0,
     startedWhile |-> InFlightRuns]

NewRequest(id, kind, forceRefresh, awaits) ==
    [id |-> id, kind |-> kind, forceRefresh |-> forceRefresh, awaits |-> awaits]

NextId == nreq + 1

RECURSIVE MinTs(_)
MinTs(sigs) == IF Len(sigs) = 1 THEN TsOf(sigs[1])
               ELSE Min2(TsOf(Head(sigs)), MinTs(Tail(sigs)))
RECURSIVE MinTradeTs(_)
MinTradeTs(ts) == IF Len(ts) = 1 THEN ts[1].timestamp
                  ELSE Min2(Head(ts).timestamp, MinTradeTs(Tail(ts)))

\* walletQueries.upsertWallet as insertTx calls it
upsertWallet(w, signatures) ==
    IF ~w.exists
    THEN [NoWallet EXCEPT !.exists = TRUE, !.last_synced_at = TRUE,
                          !.first_synced_at = MinTs(signatures),
                          !.last_signature = signatures[1],
                          !.total_transactions = Len(signatures)]
    ELSE [w EXCEPT !.last_synced_at = TRUE,
                   !.first_synced_at = IF @ # 0 THEN @ ELSE MinTs(signatures),
                   !.last_signature = signatures[1],
                   !.total_transactions = @ + Len(signatures)]

\* walletQueries.updateWalletStats as the rollup step calls it
updateWalletStats(w, signatures, allTradesForWallet, pnlSummary) ==
    IF ~w.exists THEN w
    ELSE [w EXCEPT !.last_synced_at = TRUE,
                   !.first_synced_at = IF @ # 0 THEN @
                                       ELSE IF Len(allTradesForWallet) > 0
                                            THEN MinTradeTs(allTradesForWallet) ELSE 0,
                   !.last_signature = signatures[1],
                   !.total_realized_pnl = pnlSummary.totalRealizedPnL,
                   !.total_sol_volume = pnlSummary.totalSolVolume,
                   !.total_trades = pnlSummary.totalTrades]

\* the statements of insertTx outside a transaction, the first insertTrade
\* throwing: the wallet row and the raw transactions stay written (what C10
\* rules out)
insertTxNoTransaction(tables, signatures, allTrades, throws) ==
    <<upsertWallet(tables[1], signatures),
      tables[2] \cup Range(signatures),
      IF throws THEN tables[3] ELSE insertTrades(tables[3], allTrades)>>

\* insertTx = db.transaction(() => { upsertWallet; insertTransaction*; insertTrade* })
\* on <<wallet, transactions, trades>>; when a statement throws, the
\* transaction is rolled back
insertTx(tables, signatures, allTrades, throws) ==
    IF throws THEN tables
    ELSE <<upsertWallet(tables[1], signatures),
           tables[2] \cup Range(signatures),
           insertTrades(tables[3], allTrades)>>

\* step 5 of a run: FIFO rebuild, summary, updateWalletStats
Rollup(committed, signatures, allTradesForWallet) ==
    [failedIn |-> "",
     wallet |-> updateWalletStats(committed[1], signatures, allTradesForWallet,
                                  generatePnLSummary(allTradesForWallet)),
     transactions |-> committed[2], trades |-> committed[3],
     tables |-> calculateFIFOPnL(<<positions, lots>>, allTradesForWallet, 0).tables]

\* after insertTx: the run throws when insertTx threw, and goes on otherwise
AfterCommit(committed, signatures, throws) ==
    IF throws
    THEN [failedIn |-> "commit", wallet |-> committed[1], transactions |-> committed[2],
          trades |-> committed[3], tables |-> <<positions, lots>>]
    ELSE Rollup(committed, signatures, getTradesForWallet(committed[3], tieOrder))

\* a run that writes the rollup before its commit: when the commit throws, the
\* wallet row keeps a rollup of trades that were never stored (what C11 rules
\* out)
FinishSyncRollupFirst(signatures, throws) ==
    IF throws
    THEN [failedIn |-> "commit",
          wallet |-> Rollup(<<wallet, transactions, trades>>, signatures,
                            getTradesForWallet(
                                insertTrades(trades,
                                             parseEnhancedTransactions(
                                                 EnhancedOf(signatures), W)),
                                tieOrder)).wallet,
          transactions |-> transactions, trades |-> trades,
          tables |-> <<positions, lots>>]
    ELSE AfterCommit(insertTx(<<wallet, transactions, trades>>, signatures,
                              parseEnhancedTransactions(EnhancedOf(signatures), W),
                              throws),
                     signatures, throws)

\* step 3 to 5 of a run, from the last enhanced batch to the return; throws:
\* a statement of insertTx throws.  (Store errors of the FIFO rebuild are
\* examined with calculateFIFOPnL itself, under SpecFifo.)
FinishSync(signatures, throws) ==
    AfterCommit(insertTx(<<wallet, transactions, trades>>, signatures,
                         parseEnhancedTransactions(EnhancedOf(signatures), W), throws),
                signatures, throws)

\* the handlers awaiting run r continue when it settles; after a successful
\* run analyze and bulk-analyze call generatePnLSummary, which rebuilds the
\* FIFO tables from the stored trades
Waiting(r) == {q \in requests : q.awaits = r}
Rebuilders(r) == {q \in Waiting(r) : q.kind \in {"analyze", "bulk"}}

\* .finally(() => syncInProgress.delete(address)), only on analyze's promise
FinallyDelete(r) == IF runs[r].kind = "analyze" THEN 0 ELSE syncInProgress

RemoveRun(r) == [x \in DOMAIN runs \ {r} |-> runs[x]]

-----------------------------------------------------------------------------
(* Actions of the coordinator *)

Idle == [done |-> FALSE, failed |-> FALSE]
NoTx == [signature |-> 0]
NotParsed == [done |-> FALSE, trades |-> <<>>]
NoneSettled == [run |-> 0, failedIn |-> ""]

NoOutput == [done |-> FALSE]
\* token_launches as CREATE TABLE IF NOT EXISTS leaves it, and launchCache = null
NoLaunches == [table |-> {}, cache |-> [loaded |-> FALSE, map |-> {}]]

\* HeliusService: milliseconds between two RPC calls, and between two calls of the
\* enhanced-transactions endpoint (parseTransactions calls rateLimit(600))
minRequestInterval == 100
enhancedInterval == 600
\* the syncs that share the one HeliusService
Callers == 1..2
IdleCaller == [pc |-> "idle", wake |-> 0, minInterval |-> 0]
\* the service as constructed: lastRequestTime = 0, Date.now() far past it, no call yet
NoCalls ==
    [now |-> enhancedInterval, lastRequestTime |-> 0,
     callers |-> [c \in Callers |-> IdleCaller], starts |-> <<>>]

\* refreshTokenLaunchCache(): the memoised launchCache, loaded from token_launches by
\* the first call of the process
refreshTokenLaunchCache(l) ==
    IF l.cache.loaded THEN l
    ELSE [l EXCEPT !.cache = [loaded |-> TRUE, map |-> l.table]]

HarnessUnchanged == UNCHANGED <<tx, parsed, fifo, out, svc, launch>>

\* the provider sees a new transaction of the wallet
ChainGrow ==
    /\ chain < MaxChain
    /\ chain' = chain + 1
    /\ UNCHANGED <<wallet, transactions, trades, positions, lots, tieOrder, runs,
                   syncInProgress, requests, nreq, settled, lastSync>>
    /\ HarnessUnchanged

\* GET /:address/analyze[?refresh=true], up to `await syncPromise`
AnalyzeRequest(forceRefresh) ==
    /\ nreq < MaxRequests
    /\ nreq' = NextId
    /\ IF syncInProgress = 0 \/ forceRefresh
       THEN /\ runs' = runs @@ (NextId :> NewRun("analyze", forceRefresh))
            /\ syncInProgress' = NextId
            /\ requests' = requests \cup {NewRequest(NextId, "analyze", forceRefresh, NextId)}
       ELSE /\ requests' = requests \cup
                             {NewRequest(NextId, "analyze", forceRefresh, syncInProgress)}
            /\ UNCHANGED <<runs, syncInProgress>>
    /\ UNCHANGED <<chain, wallet, transactions, trades, positions, lots, tieOrder,
                   settled, lastSync>>
    /\ HarnessUnchanged

\* POST /catalog/refresh-selected with addresses = [address], up to the await
RefreshSelectedRequest(forceRefresh) ==
    /\ nreq < MaxRequests
    /\ nreq' = NextId
    /\ runs' = runs @@ (NextId :> NewRun("refresh", forceRefresh))
    /\ requests' = requests \cup {NewRequest(NextId, "refresh", forceRefresh, NextId)}
    /\ UNCHANGED <<chain, wallet, transactions, trades, positions, lots, tieOrder,
                   syncInProgress, settled, lastSync>>
    /\ HarnessUnchanged

\* POST /catalog/bulk-analyze with addresses = [address], wallet never synced
BulkAnalyzeSync ==
    /\ nreq < MaxRequests
    /\ ~wallet.last_synced_at
    /\ nreq' = NextId
    /\ runs' = runs @@ (NextId :> NewRun("bulk", FALSE))
    /\ requests' = requests \cup {NewRequest(NextId, "bulk", FALSE, NextId)}
    /\ UNCHANGED <<chain, wallet, transactions, trades, positions, lots, tieOrder,
                   syncInProgress, settled, lastSync>>
    /\ HarnessUnchanged

\* POST /catalog/bulk-analyze with addresses = [address], wallet synced before:
\* no sync, generatePnLSummary rebuilds the FIFO tables and the handler answers
BulkAnalyzeCached ==
    /\ nreq < MaxRequests
    /\ wallet.last_synced_at
    /\ nreq' = NextId
    /\ \E res \in {calculateFIFOPnL(<<positions, lots>>,
                                     getTradesForWallet(trades, tieOrder), 0)} :
           /\ positions' = res.tables[1]
           /\ lots' = res.tables[2]
    /\ UNCHANGED <<chain, wallet, transactions, trades, tieOrder, runs, syncInProgress,
                   requests, settled, lastSync>>
    /\ HarnessUnchanged

\* run r settles: its promise's finally runs and the handlers awaiting it
\* continue and answer; after a successful run the rebuilders rebuild the FIFO
\* tables (left by the run in `tables`) once more
Settle(r, failedIn, tables) ==
    /\ \E res \in {IF failedIn = "" /\ Rebuilders(r) # {}
                   THEN calculateFIFOPnL(tables, getTradesForWallet(trades', tieOrder), 0)
                   ELSE [failed |-> FALSE, tables |-> tables]} :
           /\ positions' = res.tables[1]
           /\ lots' = res.tables[2]
    /\ requests' = requests \ Waiting(r)
    /\ syncInProgress' = FinallyDelete(r)
    /\ runs' = RemoveRun(r)
    /\ settled' = [run |-> r, failedIn |-> failedIn]

\* one page of getAllSignaturesForAddress, asked by run r
UntilIndex(batch, until) ==
    IF \E i \in 1..Len(batch) : batch[i] = until
    THEN CHOOSE i \in 1..Len(batch) : batch[i] = until
    ELSE 0

\* a loop that never looks at maxSignatures (what C23 rules out)
PageResultNoCap(batch, untilIndex, got) ==
    [allSignatures |-> got,
     last |-> batch = <<>> \/ untilIndex > 0 \/ Len(batch) < PageLimit]

\* the loop body after the page has arrived: the signatures so far, and
\* whether the loop ends
PageResult(batch, untilIndex, got) ==
    [allSignatures |-> got,
     last |-> batch = <<>> \/ untilIndex > 0 \/ Len(batch) < PageLimit
              \/ Len(got) >= MaxSignatures]

PageAppend(all, batch, untilIndex) ==
    PageResult(batch, untilIndex,
               IF untilIndex > 0 THEN all \o SubSeq(batch, 1, untilIndex - 1)
               ELSE all \o batch)

PageOf(all, batch, until) == PageAppend(all, batch, UntilIndex(batch, until))

Page(r) ==
    PageOf(runs[r].allSignatures,
           getSignaturesForAddress(chain,
                                   IF runs[r].allSignatures = <<>> THEN 0
                                   ELSE runs[r].allSignatures[Len(runs[r].allSignatures)],
                                   runs[r].lastSignature, PageLimit),
           runs[r].lastSignature)

\* a page arrives and the run goes on (next page, or the first enhanced batch)
FetchSignaturesPage(r) ==
    /\ r \in DOMAIN runs /\ runs[r].pc = "signatures"
    /\ \E page \in {Page(r)} :
           /\ ~(page.last /\ page.allSignatures = <<>>)
           /\ runs' = [runs EXCEPT ![r].allSignatures = page.allSignatures,
                                   ![r].pc = IF page.last THEN "enhanced" ELSE "signatures"]
    /\ UNCHANGED <<chain, wallet, transactions, trades, positions, lots, tieOrder,
                   syncInProgress, requests, nreq, settled, lastSync>>
    /\ HarnessUnchanged

\* the last page arrives and there is nothing new: the run returns
NoNewTransactions(r) ==
    /\ r \in DOMAIN runs /\ runs[r].pc = "signatures"
    /\ \E page \in {Page(r)} : page.last /\ page.allSignatures = <<>>
    /\ UNCHANGED <<chain, wallet, transactions, trades, tieOrder, nreq, lastSync>>
    /\ Settle(r, "", <<positions, lots>>)
    /\ HarnessUnchanged

\* an enhanced batch arrives and more batches remain
FetchEnhancedBatch(r) ==
    /\ r \in DOMAIN runs /\ runs[r].pc = "enhanced"
    /\ Len(runs[r].allSignatures) - runs[r].parsedCount > BatchSize
    /\ runs' = [runs EXCEPT ![r].parsedCount = @ + BatchSize]
    /\ UNCHANGED <<chain, wallet, transactions, trades, positions, lots, tieOrder,
                   syncInProgress, requests, nreq, settled, lastSync>>
    /\ HarnessUnchanged

\* a provider call fails for good (retries exhausted): the run throws
ProviderFails(r) ==
    /\ r \in DOMAIN runs
    /\ UNCHANGED <<chain, wallet, transactions, trades, tieOrder, nreq, lastSync>>
    /\ Settle(r, runs[r].pc, <<positions, lots>>)
    /\ HarnessUnchanged

\* the last enhanced batch arrives: parse, insertTx, FIFO rebuild, rollup
\* write and return run in one turn of the event loop
FinishRun(r, throws) ==
    /\ r \in DOMAIN runs /\ runs[r].pc = "enhanced"
    /\ Len(runs[r].allSignatures) - runs[r].parsedCount <= BatchSize
    /\ \E fin \in {FinishSync(runs[r].allSignatures, throws)} :
           /\ wallet' = fin.wallet
           /\ transactions' = fin.transactions
           /\ trades' = fin.trades
           /\ lastSync' = IF throws THEN lastSync
                          ELSE [sigs |-> runs[r].allSignatures,
                                tables |-> <<fin.trades>> \o fin.tables]
           /\ Settle(r, fin.failedIn, fin.tables)
           /\ launch' = IF fin.failedIn = "" THEN refreshTokenLaunchCache(launch)
                         ELSE launch
    /\ UNCHANGED <<chain, tieOrder, nreq, tx, parsed, fifo, out, svc>>

Init ==
    /\ chain = 1
    /\ wallet = NoWallet
    /\ transactions = {}
    /\ trades = <<>>
    /\ positions = <<>>
    /\ lots = <<>>
    /\ tieOrder \in {"asc", "desc"}
    /\ runs = <<>>
    /\ syncInProgress = 0
    /\ requests = {}
    /\ nreq = 0
    /\ settled = NoneSettled
    /\ lastSync = [sigs |-> <<>>, tables |-> <<>>]
    /\ tx = NoTx
    /\ parsed = NotParsed
    /\ fifo = Idle
    /\ out = NoOutput
    /\ svc = NoCalls
    /\ launch = NoLaunches

Next ==
    \/ ChainGrow
    \/ \E forceRefresh \in BOOLEAN : AnalyzeRequest(forceRefresh)
    \/ \E forceRefresh \in BOOLEAN : RefreshSelectedRequest(forceRefresh)
    \/ BulkAnalyzeSync
    \/ BulkAnalyzeCached
    \/ \E r \in 1..MaxRequests : FetchSignaturesPage(r)
    \/ \E r \in 1..MaxRequests : NoNewTransactions(r)
    \/ \E r \in 1..MaxRequests : FetchEnhancedBatch(r)
    \/ \E r \in 1..MaxRequests : ProviderFails(r)
    \/ \E r \in 1..MaxRequests, throws \in BOOLEAN : FinishRun(r, throws)

Spec == Init /\ [][Next]_vars

-----------------------------------------------------------------------------
(* Claims about the sync coordinator, checked under Spec *)

\* C1: at most one syncWalletTransactions run for the address is in flight at
\* any time, for every interleaving of analyze, refresh-selected and
\* bulk-analyze requests.
C1_AtMostOneInFlight == Cardinality(InFlightRuns) <= 1

\* the run r settles in this step
Settles(r) == r \in DOMAIN runs /\ r \notin DOMAIN runs'

\* C2: an analyze request without forceRefresh that arrives while a run is in
\* flight starts no run: it awaits a run that was already in flight.
C2_NonForceAttaches ==
    [][\A q \in requests' \ requests :
          (q.kind = "analyze" /\ ~q.forceRefresh /\ InFlightRuns # {})
          => (DOMAIN runs' = DOMAIN runs /\ q.awaits \in InFlightRuns)]_vars

\* C3: a forceRefresh run started while another run was in flight gets no
\* provider response (and so writes nothing) before that run has completed.
C3_ForceSequenced ==
    \A r \in InFlightRuns :
        (runs[r].forceRefresh /\ Called(r)) => runs[r].startedWhile \cap InFlightRuns = {}

\* C4: the stored last_signature never moves to an older signature (signatures
\* are numbered in chain order, a newer one has the larger number).
C4_CursorMonotone == [][wallet'.last_signature >= wallet.last_signature]_vars

\* the step completes run r: insertTx, rebuild and rollup are done
Completes(r) ==
    Settles(r) /\ runs[r].pc = "enhanced" /\ settled'.run = r /\ settled'.failedIn = ""

Committed(r) ==
    /\ wallet'.exists
    /\ wallet'.total_transactions = wallet.total_transactions + Len(runs[r].allSignatures)
    /\ Range(runs[r].allSignatures) \subseteq transactions'
    /\ Range(parseEnhancedTransactions(EnhancedOf(runs[r].allSignatures), W))
          \subseteq Range(trades')

\* C10: a run that fails while fetching signatures, while fetching enhanced
\* records or in the commit has written nothing: its fetch steps and its
\* failing step leave wallet, transactions, trades, positions and lots
\* unchanged; and the step in which a run ends makes the wallet upsert, the raw
\* transactions and the trades visible together or not at all.
C10_FailedRunLeavesStore ==
    [][\A r \in InFlightRuns :
          /\ (~Settles(r) /\ runs'[r] # runs[r]) => store' = store
          /\ (Settles(r) /\ settled'.failedIn \in {"signatures", "enhanced", "commit"})
             => store' = store
          /\ Settles(r)
             => (<<wallet', transactions', trades'>> = <<wallet, transactions, trades>>
                 \/ Committed(r))]_vars

\* a run has failed in the commit of two fetched signatures, on a store that
\* held nothing
C10_Witness ==
    /\ settled.failedIn = "commit"
    /\ chain = 2 /\ runs = <<>>
    /\ ~wallet.exists /\ transactions = {} /\ trades = <<>>

\* the rollup fields of a wallets row
Rollups(w) == <<w.total_realized_pnl, w.total_sol_volume, w.total_trades>>

RollupOf(pnlSummary) ==
    <<pnlSummary.totalRealizedPnL, pnlSummary.totalSolVolume, pnlSummary.totalTrades>>

RollupOfStored(allTrades) == RollupOf(generatePnLSummary(allTrades))

-----------------------------------------------------------------------------
(* The FIFO engine on its own: trades of any order are stored and
   calculateFIFOPnL is called on them, with or without a store error *)

MaxTrades == 3       \* trades stored per behaviour

\* the trades drawn: TOK bought at 1 unit per token at block time 10 and at 3
\* at block time 20, TOK sold at 2 at either time, and one unit of BONK bought
FifoTradeInputs ==
    [mint : {"TOK"}, type : {"buy"}, timestamp : {10}, amount : {1, 2}, price : {1}]
    \cup [mint : {"TOK"}, type : {"buy"}, timestamp : {20}, amount : {1, 2}, price : {3}]
    \cup [mint : {"TOK"}, type : {"sell"}, timestamp : {10, 20}, amount : {1, 2},
          price : {2}]
    \cup [mint : {"BONK"}, type : {"buy"}, timestamp : {10}, amount : {1}, price : {1}]

\* the trade createTrade builds for an input, one signature per stored trade
TradeOfInput(in, signature) ==
    createTrade([signature |-> signature, timestamp |-> in.timestamp], W, in.type,
                in.mint, in.amount, in.price * in.amount)

CoordinatorUnchanged ==
    UNCHANGED <<chain, wallet, transactions, runs, syncInProgress, requests, nreq,
                settled, lastSync, out, svc,
                launch>>

\* a trade is stored (tradeQueries.insertTrade)
FifoInsertTrade(in) ==
    /\ Len(trades) < MaxTrades
    /\ trades' = insertTrade(trades, TradeOfInput(in, Len(trades) + 1))
    /\ fifo' = Idle
    /\ UNCHANGED <<positions, lots, tieOrder, tx, parsed>>
    /\ CoordinatorUnchanged

\* calculateFIFOPnL(walletAddress, getTradesForWallet(walletAddress)), where
\* statement failAt throws (0: none does)
FifoRecompute(failAt) ==
    /\ \E res \in {calculateFIFOPnL(<<positions, lots>>,
                                     getTradesForWallet(trades, tieOrder), failAt)} :
           /\ (failAt # 0) => res.failed
           /\ positions' = res.tables[1]
           /\ lots' = res.tables[2]
           /\ fifo' = [done |-> TRUE, failed |-> res.failed]
    /\ UNCHANGED <<trades, tieOrder, tx, parsed>>
    /\ CoordinatorUnchanged

\* the statements of one call: 2 deletes, and at most a lot per trade and a
\* position per mint
FifoFailPoints == 0..(2 + 2 * MaxTrades)

NextFifo ==
    \/ \E in \in FifoTradeInputs : FifoInsertTrade(in)
    \/ \E failAt \in FifoFailPoints : FifoRecompute(failAt)

SpecFifo == Init /\ [][NextFifo]_vars

\* the trades of a mint in the order calculateFIFOPnL processes them
StoredTradesOf(tokenMint) == SortedTrades(getTradesForWallet(trades, tieOrder), tokenMint)

Rebuilt == fifo.done /\ ~fifo.failed

RECURSIVE SumRemaining(_, _)
SumRemaining(rows, tokenMint) ==
    IF rows = <<>> THEN 0
    ELSE (IF Head(rows).token_mint = tokenMint THEN Head(rows).remaining_amount ELSE 0)
         + SumRemaining(Tail(rows), tokenMint)

\* C6: after calculateFIFOPnL, for every mint the remaining_amount of the
\* persisted lots adds up to max(0, total_bought - total_sold), whatever the
\* order of buys and sells.
C6_FifoConservation ==
    Rebuilt =>
        \A i \in 1..Len(positions) :
            SumRemaining(lots, positions[i].tokenMint)
                = Max2(0, positions[i].totalBought - positions[i].totalSold)

\* the matched cost by definition: a queue with the price of every token unit
\* bought, oldest first; a sell takes its units from the front and what
\* exceeds the queue costs nothing
Copies(price, n) == [i \in 1..n |-> price]

UnitStep(q, trade, taken) ==
    IF trade.type = "buy"
    THEN [queue |-> q.queue \o Copies(trade.pricePerToken, trade.tokenAmount),
          matched |-> q.matched]
    ELSE [queue |-> SubSeq(q.queue, taken + 1, Len(q.queue)),
          matched |-> q.matched + SumSeq(SubSeq(q.queue, 1, taken))]

RECURSIVE UnitLoop(_, _)
UnitLoop(q, sortedTrades) ==
    IF sortedTrades = <<>> THEN q
    ELSE UnitLoop(UnitStep(q, Head(sortedTrades),
                           Min2(Head(sortedTrades).tokenAmount, Len(q.queue))),
                  Tail(sortedTrades))

MatchedCost(sortedTrades) == UnitLoop([queue |-> <<>>, matched |-> 0], sortedTrades).matched

\* C7: after calculateFIFOPnL, for every mint realized_pnl = total_proceeds
\* minus the matched cost of its sells, the part of a sell beyond the open lots
\* costing nothing; an oversell does not abort the computation.
C7_PnLIdentity ==
    Rebuilt =>
        \A i \in 1..Len(positions) :
            positions[i].realizedPnL
                = positions[i].totalProceeds - MatchedCost(StoredTradesOf(positions[i].tokenMint))

\* a rebuild has gone through on an oversold mint whose sells consumed lots
C7_Witness ==
    /\ Rebuilt
    /\ \E i \in 1..Len(positions) :
          /\ positions[i].totalBought > 0
          /\ positions[i].totalSold > positions[i].totalBought
          /\ positions[i].realizedPnL < positions[i].totalProceeds
          /\ positions[i].tradeCount = 3

\* C9: a calculateFIFOPnL call that fails part-way leaves positions and
\* cost_basis_lots as they were before the call.
C9_RebuildAtomic ==
    [][(fifo'.failed /\ trades' = trades)
       => (positions' = positions /\ lots' = lots)]_vars

-----------------------------------------------------------------------------
(* The swap parser on its own: parseEnhancedTransaction on one enhanced
   transaction *)

NativeInputs ==
    {<<>>,
     <<[fromUserAccount |-> W, toUserAccount |-> O, amount |-> 2000000]>>,
     <<[fromUserAccount |-> O, toUserAccount |-> W, amount |-> 3000000]>>}

TokenTransferInputs ==
    {<<>>,
     <<[fromUserAccount |-> O, toUserAccount |-> W, mint |-> "TOK", tokenAmount |-> 1000]>>,
     <<[fromUserAccount |-> W, toUserAccount |-> O, mint |-> "TOK", tokenAmount |-> 1000]>>,
     <<[fromUserAccount |-> O, toUserAccount |-> W, mint |-> "USDC", tokenAmount |-> 2000]>>,
     <<[fromUserAccount |-> W, toUserAccount |-> O, mint |-> "USDC", tokenAmount |-> 2000]>>,
     <<[fromUserAccount |-> W, toUserAccount |-> O, mint |-> "USDC",
        tokenAmount |-> 200000],
       [fromUserAccount |-> O, toUserAccount |-> W, mint |-> "TOK", tokenAmount |-> 1000]>>,
     <<[fromUserAccount |-> W, toUserAccount |-> O, mint |-> WSOL_MINT,
        tokenAmount |-> 2000],
       [fromUserAccount |-> O, toUserAccount |-> W, mint |-> "TOK", tokenAmount |-> 1000]>>}

BalanceChangeOf(mint, tokenAmount, nativeBalanceChange) ==
    <<[account |-> W, nativeBalanceChange |-> nativeBalanceChange,
       tokenBalanceChanges |-> <<>>],
      [account |-> O, nativeBalanceChange |-> 0,
       tokenBalanceChanges |-> <<[mint |-> mint, userAccount |-> W,
                                  rawTokenAmount |-> [tokenAmount |-> tokenAmount,
                                                      decimals |-> 6]]>>]>>

AccountDataInputs ==
    {<<>>,
     BalanceChangeOf("TOK", 1000, -2000000),
     BalanceChangeOf("TOK", -1000, 3000000),
     BalanceChangeOf("USDC", 2000, -2000000),
     <<[account |-> W, nativeBalanceChange |-> -2000000, tokenBalanceChanges |-> <<>>],
       [account |-> O, nativeBalanceChange |-> 0,
        tokenBalanceChanges |->
            <<[mint |-> "TOK", userAccount |-> W,
               rawTokenAmount |-> [tokenAmount |-> 1000, decimals |-> 6]],
              [mint |-> "BONK", userAccount |-> W,
               rawTokenAmount |-> [tokenAmount |-> 500, decimals |-> 6]]>>]>>}

SwapToken(mint, tokenAmount) ==
    <<[mint |-> mint, rawTokenAmount |-> [tokenAmount |-> tokenAmount, decimals |-> 6]]>>

SwapInputs ==
    {NoSwap,
     [nativeInput |-> 2000000, nativeOutput |-> 0, tokenInputs |-> <<>>,
      tokenOutputs |-> SwapToken("TOK", 1000)],
     [nativeInput |-> 0, nativeOutput |-> 3000000, tokenInputs |-> SwapToken("TOK", 1000),
      tokenOutputs |-> <<>>],
     [nativeInput |-> 2000000, nativeOutput |-> 0, tokenInputs |-> <<>>,
      tokenOutputs |-> SwapToken("mSOL", 1000)],
     [nativeInput |-> 2000000, nativeOutput |-> 0, tokenInputs |-> <<>>,
      tokenOutputs |-> SwapToken("TOK", 1000) \o SwapToken("BONK", 500)]}

ParserInputs ==
    [signature : {1}, timestamp : {10}, transactionError : BOOLEAN,
     nativeTransfers : NativeInputs, tokenTransfers : TokenTransferInputs,
     accountData : AccountDataInputs, swap : SwapInputs]

InitParser ==
    /\ chain = 1
    /\ wallet = NoWallet
    /\ transactions = {}
    /\ trades = <<>>
    /\ positions = <<>>
    /\ lots = <<>>
    /\ tieOrder = "asc"
    /\ runs = <<>>
    /\ syncInProgress = 0
    /\ requests = {}
    /\ nreq = 0
    /\ settled = NoneSettled
    /\ lastSync = [sigs |-> <<>>, tables |-> <<>>]
    /\ tx \in ParserInputs
    /\ parsed = NotParsed
    /\ fifo = Idle
    /\ out = NoOutput
    /\ svc = NoCalls
    /\ launch = NoLaunches

\* parseEnhancedTransaction(tx, walletAddress)
ParseTransaction ==
    /\ ~parsed.done
    /\ parsed' = [done |-> TRUE, trades |-> parseEnhancedTransaction(tx, W)]
    /\ UNCHANGED <<trades, positions, lots, tieOrder, tx, fifo>>
    /\ CoordinatorUnchanged

NextParser == ParseTransaction

SpecParser == InitParser /\ [][NextParser]_vars

\* C8: no trade parseEnhancedTransaction returns has a tokenMint of the
\* intermediate-token set, whichever strategy produced it.
C8_IntermediateExclusion ==
    parsed.done =>
        \A i \in 1..Len(parsed.trades) : parsed.trades[i].tokenMint \notin INTERMEDIATE_TOKENS

-----------------------------------------------------------------------------
(* The catalog: wallets are imported, patched, synced one request at a time
   and removed *)

\* walletQueries.upsertWallet as POST /catalog/import calls it: name given,
\* total_transactions 0, every other parameter null
importWallet(w, name) ==
    IF ~w.exists
    THEN [NoWallet EXCEPT !.exists = TRUE, !.name = name]
    ELSE [w EXCEPT !.name = name, !.total_transactions = 0]

\* walletQueries.updateWalletMetadata
updateWalletMetadata(w, name) == IF w.exists THEN [w EXCEPT !.name = name] ELSE w

\* walletQueries.deleteWallet
deleteWallet(w) == NoWallet

WalletNames == {"alpha", "beta"}

CatalogUnchanged ==
    UNCHANGED <<chain, transactions, trades, positions, lots, tieOrder, runs,
                syncInProgress, requests, nreq, settled, lastSync, tx, parsed, fifo,
                out, svc,
                launch>>

\* POST /catalog/import with wallets = [the address]
CatalogImport(name) ==
    /\ wallet' = importWallet(wallet, name)
    /\ CatalogUnchanged

\* PATCH /catalog/:address
CatalogPatch(name) ==
    /\ wallet' = updateWalletMetadata(wallet, name)
    /\ CatalogUnchanged

\* DELETE /catalog/:address
CatalogDelete ==
    /\ wallet' = deleteWallet(wallet)
    /\ CatalogUnchanged

\* getAllSignaturesForAddress from the first page to the last, no other
\* request in between
RECURSIVE FetchAll(_, _, _)
FetchNext(page, until, n) ==
    IF page.last THEN page.allSignatures ELSE FetchAll(page.allSignatures, until, n)

FetchAll(all, until, n) ==
    FetchNext(PageOf(all,
                     getSignaturesForAddress(n, IF all = <<>> THEN 0 ELSE all[Len(all)],
                                             until, PageLimit),
                     until),
              until, n)

\* GET /:address/profile: buildWalletProfile takes its launch map from
\* refreshTokenLaunchCache; stored records the raw transactions held at the call
CatalogProfile ==
    /\ launch' = refreshTokenLaunchCache(launch)
    /\ out' = [done |-> TRUE, launchMap |-> launch'.cache.map, stored |-> transactions]
    /\ UNCHANGED <<chain, wallet, transactions, trades, positions, lots, tieOrder, runs,
                   syncInProgress, requests, nreq, settled, lastSync, tx, parsed, fifo,
                   svc>>

\* POST /catalog/refresh-selected with addresses = [the address], from the
\* request to the answer with no other request in between
CatalogSync(forceRefresh) ==
    /\ nreq < MaxRequests
    /\ nreq' = nreq + 1
    /\ \E signatures \in {FetchAll(<<>>, IF forceRefresh THEN 0 ELSE wallet.last_signature,
                                   chain)} :
          IF signatures = <<>>
          THEN UNCHANGED <<wallet, transactions, trades, positions, lots, lastSync,
                           launch>>
          ELSE \E fin \in {FinishSync(signatures, FALSE)} :
                  /\ launch' = refreshTokenLaunchCache(launch)
                  /\ wallet' = fin.wallet
                  /\ transactions' = fin.transactions
                  /\ trades' = fin.trades
                  /\ positions' = fin.tables[1]
                  /\ lots' = fin.tables[2]
                  /\ lastSync' = [sigs |-> signatures,
                                  tables |-> <<fin.trades>> \o fin.tables]
    /\ UNCHANGED <<chain, tieOrder, runs, syncInProgress, requests, settled, tx, parsed,
                   fifo, out, svc>>

\* the provider sees a new transaction of the wallet; the chain may outgrow what one
\* sync fetches
BacklogGrow ==
    /\ chain < MaxSignatures + 2
    /\ chain' = chain + 1
    /\ UNCHANGED <<wallet, transactions, trades, positions, lots, tieOrder, runs,
                   syncInProgress, requests, nreq, settled, lastSync>>
    /\ HarnessUnchanged

NextCatalog ==
    \/ BacklogGrow
    \/ \E name \in WalletNames : CatalogImport(name)
    \/ \E name \in WalletNames : CatalogPatch(name)
    \/ CatalogDelete
    \/ \E forceRefresh \in BOOLEAN : CatalogSync(forceRefresh)
    \/ CatalogProfile

SpecCatalog == Init /\ [][NextCatalog]_vars

\* C12: after DELETE /catalog/:address the store holds no raw transaction,
\* trade, position or cost-basis lot of the wallet.
C12_DeleteCascades ==
    [][(wallet.exists /\ ~wallet'.exists)
       => (transactions' = {} /\ trades' = <<>> /\ positions' = <<>> /\ lots' = <<>>)]_vars

\* the sync cursor of a wallets row
Cursor(w) == <<w.last_signature, w.first_synced_at, w.total_transactions>>

\* C19: a step that is neither a sync nor a removal (an import of a wallet that
\* exists, a metadata patch) leaves the cursor and the rollups of the wallet
\* unchanged.
C19_CursorOnlyBySync ==
    [][(wallet.exists /\ wallet'.exists /\ nreq' = nreq)
       => (Cursor(wallet') = Cursor(wallet) /\ Rollups(wallet') = Rollups(wallet))]_vars


(***************************************************************************)
(* HeliusService.rateLimit: the provider calls of concurrent syncs.        *)
(* Time is Date.now() in milliseconds; the clock moves in steps of         *)
(* minRequestInterval.                                                     *)
(***************************************************************************)
MaxTicks == 8

\* the two most recent calls
LastTwo(starts) == IF Len(starts) > 2 THEN Tail(starts) ELSE starts

\* this.lastRequestTime = Date.now(); rateLimit resolves and the caller issues its call
StartCall(s, c, minInterval) ==
    [s EXCEPT !.lastRequestTime = s.now,
              !.callers[c] = [pc |-> "calling", wake |-> 0, minInterval |-> minInterval],
              !.starts = LastTwo(Append(s.starts,
                                        [at |-> s.now, minInterval |-> minInterval]))]

\* rateLimit(minInterval) up to its first await
rateLimit(s, c, minInterval) ==
    IF s.now - s.lastRequestTime < minInterval
    THEN [s EXCEPT !.callers[c] =
              [pc |-> "sleeping",
               wake |-> s.now + (minInterval - (s.now - s.lastRequestTime)),
               minInterval |-> minInterval]]
    ELSE StartCall(s, c, minInterval)

RateUnchanged ==
    UNCHANGED <<chain, wallet, transactions, trades, positions, lots, tieOrder, runs,
                syncInProgress, requests, nreq, settled, lastSync, tx, parsed, fifo,
                out, launch>>

\* getSignaturesForAddress (minRequestInterval) or parseTransactions (600) is called
ProviderCall(c, minInterval) ==
    /\ svc.callers[c].pc = "idle"
    /\ svc' = rateLimit(svc, c, minInterval)
    /\ RateUnchanged

\* the setTimeout of rateLimit fires: the rest of rateLimit runs
TimerFires(c) ==
    /\ svc.callers[c].pc = "sleeping"
    /\ svc.now >= svc.callers[c].wake
    /\ svc' = StartCall(svc, c, svc.callers[c].minInterval)
    /\ RateUnchanged

\* the provider answers
CallReturns(c) ==
    /\ svc.callers[c].pc = "calling"
    /\ svc' = [svc EXCEPT !.callers[c] = IdleCaller]
    /\ RateUnchanged

\* time passes; a timer that is due fires before the clock moves on
Tick ==
    /\ svc.now < enhancedInterval + MaxTicks * minRequestInterval
    /\ \A c \in Callers : svc.callers[c].pc = "sleeping" => svc.callers[c].wake > svc.now
    /\ svc' = [svc EXCEPT !.now = svc.now + minRequestInterval]
    /\ RateUnchanged

NextRate ==
    \/ \E c \in Callers, minInterval \in {minRequestInterval, enhancedInterval} :
           ProviderCall(c, minInterval)
    \/ \E c \in Callers : TimerFires(c)
    \/ \E c \in Callers : CallReturns(c)
    \/ Tick

SpecRate == Init /\ [][NextRate]_vars

\* C13: of any two provider calls issued through the shared service, the later one
\* starts at least its minimum interval (100 ms RPC, 600 ms enhanced) after the earlier
\* one, also when the two calls belong to syncs that run concurrently.
C13_RateLimitFloor ==
    Len(svc.starts) = 2
        => svc.starts[2].at - svc.starts[1].at >= svc.starts[2].minInterval


(***************************************************************************)
(* HeliusService.withRetry: one provider call and its retries.             *)
(***************************************************************************)
maxRetries == 5
baseDelay == 2000

\* how one attempt of fn() ends: it resolves, or it rejects with an error of a kind
Outcomes ==
    {"ok", "ProviderRateLimited", "ProviderUnavailable", "ProviderTimeout",
     "ClientError", "MalformedPayload"}

\* error?.response?.status === 429
is429(error) == error = "ProviderRateLimited"

\* the delay before the retry that follows the failure of attempt i (i from 0)
RetryDelay(i, error) ==
    IF is429(error) THEN baseDelay * 2^(i + 1) ELSE baseDelay * 2^i

\* withRetry has been called: i = 0, no attempt made yet
NoAttempt == [done |-> FALSE, i |-> 0, attempts |-> <<>>, delays |-> <<>>, result |-> ""]

\* one iteration of the loop of withRetry, where fn() ends with outcome
withRetryStep(o, outcome) ==
    IF outcome = "ok"
    THEN [o EXCEPT !.done = TRUE, !.attempts = Append(o.attempts, outcome),
                   !.result = "ok"]
    ELSE IF o.i = maxRetries - 1
    THEN [o EXCEPT !.done = TRUE, !.attempts = Append(o.attempts, outcome),
                   !.result = outcome]
    ELSE [o EXCEPT !.i = o.i + 1, !.attempts = Append(o.attempts, outcome),
                   !.delays = Append(o.delays, RetryDelay(o.i, outcome))]

RetryUnchanged ==
    UNCHANGED <<chain, wallet, transactions, trades, positions, lots, tieOrder, runs,
                syncInProgress, requests, nreq, settled, lastSync, tx, parsed, fifo,
                svc,
                launch>>

\* a provider method calls withRetry(fn)
CallWithRetry ==
    /\ out = NoOutput
    /\ out' = NoAttempt
    /\ RetryUnchanged

\* fn() is awaited and settles
Attempt(outcome) ==
    /\ out # NoOutput
    /\ ~out.done
    /\ out' = withRetryStep(out, outcome)
    /\ RetryUnchanged

NextRetry ==
    \/ CallWithRetry
    \/ \E outcome \in Outcomes : Attempt(outcome)

SpecRetry == Init /\ [][NextRetry]_vars

\* the retries made so far
Retries(o) == Len(o.delays)

\* C14: a call that keeps failing with a retryable error is retried up to 5 times, the
\* k-th retry after 2 s * 2^(k-1) (strictly more after an HTTP 429); the first success
\* ends the retries, and when the budget is exhausted the last error propagates.
C14_RetryBudget ==
    out # NoOutput =>
        /\ \A k \in 1..Retries(out) :
               /\ out.attempts[k] # "ok"
               /\ IF out.attempts[k] = "ProviderRateLimited"
                  THEN out.delays[k] > baseDelay * 2^(k - 1)
                  ELSE out.delays[k] = baseDelay * 2^(k - 1)
        /\ (out.done /\ out.result = "ok")
               => out.attempts[Len(out.attempts)] = "ok"
        /\ (out.done /\ out.result # "ok")
               => /\ out.result = out.attempts[Len(out.attempts)]
                  /\ Retries(out) = maxRetries

\* the failures the coordinator recovers from by retrying
Retryable == {"ProviderUnavailable", "ProviderTimeout", "ProviderRateLimited"}

\* C15: only ProviderUnavailable, ProviderTimeout and ProviderRateLimited are retried;
\* after any other error no further attempt is made and the error propagates.
C15_OnlyRetryableRetried ==
    out # NoOutput =>
        \A k \in 1..Len(out.attempts) :
            out.attempts[k] \notin (Retryable \cup {"ok"})
                => (k = 1 /\ out.done /\ out.result = out.attempts[k])


(***************************************************************************)
(* The bulk handlers: POST /catalog/refresh-selected and                   *)
(* POST /catalog/bulk-analyze.  An address of the request is modelled by   *)
(* isValidSolanaAddress(address); processing a wallet either completes or  *)
(* throws.                                                                 *)
(***************************************************************************)
MaxAddresses == 3

\* the addresses arrays of a request body
AddressLists == UNION {[1..n -> BOOLEAN] : n \in 0..MaxAddresses}

\* the handler has read the body; nothing is processed yet
BulkStart(handler, addresses) ==
    [done |-> FALSE, handler |-> handler, addresses |-> addresses, i |-> 1,
     results |-> <<>>, status |-> 0]

\* res.status(400).json(...); return
BadRequest(handler, addresses) ==
    [BulkStart(handler, addresses) EXCEPT !.done = TRUE, !.status = 400]

\* refresh-selected: only an empty array is refused
refreshSelected(addresses) ==
    IF Len(addresses) = 0
    THEN BadRequest("refresh-selected", addresses)
    ELSE BulkStart("refresh-selected", addresses)

\* bulk-analyze: an empty array is refused, and so is an array with an invalid address
bulkAnalyze(addresses) ==
    IF Len(addresses) = 0 \/ \E k \in 1..Len(addresses) : ~addresses[k]
    THEN BadRequest("bulk-analyze", addresses)
    ELSE BulkStart("bulk-analyze", addresses)

\* one iteration of the loop of refresh-selected over addresses[i]
refreshSelectedStep(o, throws) ==
    [o EXCEPT !.i = o.i + 1,
              !.results = Append(o.results,
                  [address |-> o.i, success |-> o.addresses[o.i] /\ ~throws])]

\* one iteration of the loop of bulk-analyze: the catch block pushes nothing
bulkAnalyzeStep(o, throws) ==
    [o EXCEPT !.i = o.i + 1,
              !.results = IF throws THEN o.results
                          ELSE Append(o.results, [address |-> o.i, success |-> TRUE])]

BulkRefreshSelected(addresses) ==
    /\ out = NoOutput
    /\ out' = refreshSelected(addresses)
    /\ RetryUnchanged

BulkAnalyze(addresses) ==
    /\ out = NoOutput
    /\ out' = bulkAnalyze(addresses)
    /\ RetryUnchanged

\* the body of the loop for one address
ProcessWallet(throws) ==
    /\ out # NoOutput
    /\ ~out.done
    /\ out.i <= Len(out.addresses)
    /\ out' = IF out.handler = "refresh-selected"
              THEN refreshSelectedStep(out, throws)
              ELSE bulkAnalyzeStep(out, throws)
    /\ RetryUnchanged

\* res.json({ success: true, data })
BulkRespond ==
    /\ out # NoOutput
    /\ ~out.done
    /\ out.i > Len(out.addresses)
    /\ out' = [out EXCEPT !.done = TRUE, !.status = 200]
    /\ RetryUnchanged

NextBulk ==
    \/ \E addresses \in AddressLists : BulkRefreshSelected(addresses)
    \/ \E addresses \in AddressLists : BulkAnalyze(addresses)
    \/ \E throws \in BOOLEAN : ProcessWallet(throws)
    \/ BulkRespond

SpecBulk == Init /\ [][NextBulk]_vars

\* the entries of a response that report success
Successful(results) == {k \in 1..Len(results) : results[k].success}

\* C16: in refresh-selected and bulk-analyze an error on one wallet, an invalid address
\* included, never aborts the batch: the response holds one success-or-error entry per
\* requested address, in order, so that successful + failed = total.
C16_BulkNeverAborts ==
    (out # NoOutput /\ out.done /\ Len(out.addresses) > 0) =>
        /\ out.status = 200
        /\ Len(out.results) = Len(out.addresses)
        /\ \A k \in 1..Len(out.results) : out.results[k].address = k
        /\ Cardinality(Successful(out.results))
               + (Len(out.results) - Cardinality(Successful(out.results)))
           = Len(out.addresses)


(***************************************************************************)
(* generatePnLSummary for a timeframe, over the stored trades of a wallet. *)
(***************************************************************************)
\* the timeframes asked, and Date.now() / 1000 at the call: with '24h' the period
\* starts at 10 (every trade inside) or at 20 (the trades of second 10 are older)
SummaryTimeframes == {"24h", "all"}
SummaryNows == {24 * 60 * 60 + 10, 24 * 60 * 60 + 20}

\* a trade is stored before the summary is asked
SummaryInsertTrade(in) ==
    /\ out = NoOutput
    /\ FifoInsertTrade(in)

\* GET /:address/summary?timeframe=...: getTradesForWallet, generatePnLSummary
SummaryRequest(timeframe, now) ==
    /\ out = NoOutput
    /\ \E allTrades \in {getTradesForWallet(trades, tieOrder)} :
           /\ \E res \in {calculateFIFOPnL(<<positions, lots>>, allTrades, 0)} :
                  /\ positions' = res.tables[1]
                  /\ lots' = res.tables[2]
           /\ out' = [done |-> TRUE, timeframe |-> timeframe, now |-> now,
                      summary |-> generatePnLSummaryAt(allTrades, timeframe, now)]
    /\ UNCHANGED <<chain, wallet, transactions, trades, tieOrder, runs, syncInProgress,
                   requests, nreq, settled, lastSync, tx, parsed, fifo, svc,
                launch>>

\* the stored trades of the summary: those of the FIFO harness, and a sell of TOK at
\* price 5
SummaryTradeInputs ==
    FifoTradeInputs
    \cup [mint : {"TOK"}, type : {"sell"}, timestamp : {20}, amount : {1}, price : {5}]

NextSummary ==
    \/ \E in \in SummaryTradeInputs : SummaryInsertTrade(in)
    \/ \E timeframe \in SummaryTimeframes, now \in SummaryNows :
           SummaryRequest(timeframe, now)

SpecSummary == Init /\ [][NextSummary]_vars

\* the stored trades of a mint and type (all of them, or those inside the period)
StoredOf(tokenMint, type, from) ==
    {k \in 1..Len(trades) : /\ trades[k].tokenMint = tokenMint
                            /\ trades[k].type = type
                            /\ trades[k].timestamp >= from}

RECURSIVE SumOver(_, _)
SumOver(ks, field) ==
    IF ks = {} THEN 0
    ELSE LET k == CHOOSE x \in ks : TRUE
         IN  trades[k][field] + SumOver(ks \ {k}, field)

\* lifetime average buy price of a mint: SOL spent on all its buys / tokens bought
LifetimeAverage(tokenMint) ==
    IF SumOver(StoredOf(tokenMint, "buy", 0), "tokenAmount") > 0
    THEN Rat(SumOver(StoredOf(tokenMint, "buy", 0), "solAmount"),
             SumOver(StoredOf(tokenMint, "buy", 0), "tokenAmount"))
    ELSE <<0, 1>>

\* the sum over the sells of the mints from periodStart on of
\* sol_amount - token_amount * lifetime average buy price
RECURSIVE ExpectedPeriodPnL(_, _)
ExpectedPeriodPnL(mints, periodStart) ==
    IF mints = {} THEN <<0, 1>>
    ELSE LET m == CHOOSE x \in mints : TRUE
         IN  RatAdd(RatSub(<<SumOver(StoredOf(m, "sell", periodStart), "solAmount"), 1>>,
                           RatMul(SumOver(StoredOf(m, "sell", periodStart), "tokenAmount"),
                                  LifetimeAverage(m))),
                    ExpectedPeriodPnL(mints \ {m}, periodStart))

\* C17: whatever the timeframe, generatePnLSummary recomputes FIFO over all the trades
\* of the wallet (the stored positions do not depend on the timeframe), and the period's
\* realized PnL is the sum over the sells with timestamp >= period_start of
\* sol_amount - token_amount * lifetime average buy price of the mint.
C17_PeriodUsesLifetimeBasis ==
    (out # NoOutput /\ out.done) =>
        /\ <<positions, lots>>
               = calculateFIFOPnL(<<<<>>, <<>>>>, getTradesForWallet(trades, tieOrder),
                                  0).tables
        /\ out.summary.totalRealizedPnL
               = ExpectedPeriodPnL({"TOK", "BONK"}, PeriodStart(out.timeframe, out.now))

\* a wallet bought 1 TOK for 1 unit at second 10 and sold it for 2 at second 20; the 24h
\* summary whose period starts at second 20 reports a realized PnL of 1
C17_Witness ==
    /\ out # NoOutput /\ out.done
    /\ out.timeframe = "24h" /\ PeriodStart(out.timeframe, out.now) = 20
    /\ Len(trades) = 2
    /\ trades[1].type = "buy" /\ trades[1].timestamp = 10 /\ trades[1].tokenAmount = 1
    /\ trades[1].solAmount = 1
    /\ trades[2].type = "sell" /\ trades[2].timestamp = 20 /\ trades[2].tokenAmount = 1
    /\ trades[2].solAmount = 2
    /\ out.summary.totalRealizedPnL = <<1, 1>>


(***************************************************************************)
(* followSimulator.ts: simulateFollowReturns over the stored trades.       *)
(* Scores are in tenths, slippage and price impact in thousandths, SOL     *)
(* amounts in units of 1e-6 SOL; simulated amounts are exact rationals.    *)
(***************************************************************************)
SLIPPAGE_CONFIG ==
    [conservative |-> [small |-> 10, medium |-> 20, large |-> 50],
     moderate     |-> [small |-> 20, medium |-> 50, large |-> 100],
     aggressive   |-> [small |-> 30, medium |-> 80, large |-> 150]]

\* SIZE_THRESHOLDS: 0.5 SOL and 2 SOL
getSlippage(solAmount, model) ==
    IF solAmount < 500000 THEN SLIPPAGE_CONFIG[model].small
    ELSE IF solAmount < 2000000 THEN SLIPPAGE_CONFIG[model].medium
    ELSE SLIPPAGE_CONFIG[model].large

\* a score whose thresholds include their bound (what C18 rules out)
getFollowabilityScoreInclusive(timeToFirstSellSec) ==
    IF timeToFirstSellSec <= 30 THEN 0
    ELSE IF timeToFirstSellSec <= 60 THEN 2
    ELSE IF timeToFirstSellSec <= 120 THEN 5
    ELSE IF timeToFirstSellSec <= 300 THEN 8
    ELSE 10

\* TIME_THRESHOLDS: 30, 60, 120, 300 seconds
getFollowabilityScore(timeToFirstSellSec) ==
    IF timeToFirstSellSec < 30 THEN 0
    ELSE IF timeToFirstSellSec < 60 THEN 2
    ELSE IF timeToFirstSellSec < 120 THEN 5
    ELSE IF timeToFirstSellSec < 300 THEN 8
    ELSE 10

\* x * n / d
RatScale(x, n, d) == Rat(x[1] * n, x[2] * d)

\* sum of solAmount * (1 + sign * priceImpact), where
\* priceImpact = slippage + delaySeconds * 0.001
RECURSIVE Simulated(_, _, _, _)
Simulated(ts, sign, delaySeconds, model) ==
    IF ts = <<>> THEN <<0, 1>>
    ELSE RatAdd(RatMul(1000 + sign * (getSlippage(Head(ts).solAmount, model)
                                          + delaySeconds),
                       Rat(Head(ts).solAmount, 1000)),
                Simulated(Tail(ts), sign, delaySeconds, model))

\* the entry of tokenBreakdown, with the locals of the loop body it is built from
RoundTrip(tokenMint, timeToFirstSellSec, followabilityScore, simulatedCost, simulatedProceeds, actualPnL) ==
    [tokenMint          |-> tokenMint,
     timeToFirstSellSec |-> timeToFirstSellSec,
     followabilityScore |-> followabilityScore,
     simulatedCost      |-> simulatedCost,
     simulatedProceeds  |-> simulatedProceeds,
     actualPnL          |-> actualPnL,
     simulatedPnL       |-> IF followabilityScore > 0
                            THEN RatScale(RatSub(simulatedProceeds, simulatedCost),
                                          followabilityScore, 10)
                            ELSE <<0, 1>>,
     isFollowable       |-> followabilityScore >= 5]

RoundTripOf(tokenMint, buys, sells, delaySeconds, model) ==
    RoundTrip(tokenMint, sells[1].timestamp - buys[1].timestamp,
              getFollowabilityScore(sells[1].timestamp - buys[1].timestamp),
              Simulated(buys, 1, delaySeconds, model),
              Simulated(sells, -1, delaySeconds, model),
              SolVolume(sells) - SolVolume(buys))

OfType(sorted, type) == SelectSeq(sorted, LAMBDA t : t.type = type)

\* the loop over tradesByToken: a token without a buy or without a sell is skipped
RECURSIVE TokenBreakdown(_, _, _, _)
TokenBreakdown(ts, mints, delaySeconds, model) ==
    IF mints = <<>> THEN <<>>
    ELSE (IF \/ OfType(SortedTrades(ts, Head(mints)), "buy") = <<>>
             \/ OfType(SortedTrades(ts, Head(mints)), "sell") = <<>>
          THEN <<>>
          ELSE <<RoundTripOf(Head(mints),
                             OfType(SortedTrades(ts, Head(mints)), "buy"),
                             OfType(SortedTrades(ts, Head(mints)), "sell"),
                             delaySeconds, model)>>)
         \o TokenBreakdown(ts, Tail(mints), delaySeconds, model)

RECURSIVE TotalSimulatedPnL(_)
TotalSimulatedPnL(tokenBreakdown) ==
    IF tokenBreakdown = <<>> THEN <<0, 1>>
    ELSE RatAdd(Head(tokenBreakdown).simulatedPnL,
                TotalSimulatedPnL(Tail(tokenBreakdown)))

\* the aggregate metrics of the result
FollowResult(tokenBreakdown) ==
    [tokenBreakdown     |-> tokenBreakdown,
     simulatedPnL       |-> TotalSimulatedPnL(tokenBreakdown),
     quickDumpCount     |-> Cardinality({k \in 1..Len(tokenBreakdown) :
                                tokenBreakdown[k].timeToFirstSellSec < 60}),
     totalTokensTraded  |-> Len(tokenBreakdown),
     followableTokens   |-> Cardinality({k \in 1..Len(tokenBreakdown) :
                                tokenBreakdown[k].isFollowable}),
     unfollowableTokens |-> Cardinality({k \in 1..Len(tokenBreakdown) :
                                ~tokenBreakdown[k].isFollowable})]

\* simulateFollowReturns(walletAddress, delaySeconds, slippageModel), where rows is
\* the result of tradeQueries.getTradesByWallet
simulateFollowReturns(rows, delaySeconds, slippageModel) ==
    FollowResult(TokenBreakdown(rows, MintsOf(rows, <<>>), delaySeconds, slippageModel))

\* stored trades: TOK is bought at second 0 for 0.1, 1 or 3 SOL and sold for 2 SOL
\* 20, 30, 60, 120 or 300 seconds later; BONK is bought and sold within 20 seconds
FollowTradeInputs ==
    [mint : {"TOK"}, type : {"buy"}, timestamp : {0}, amount : {1},
     price : {100000, 1000000, 3000000}]
    \cup [mint : {"TOK"}, type : {"sell"}, timestamp : {20, 30, 60, 120, 300},
          amount : {1}, price : {2000000}]
    \cup [mint : {"BONK"}, type : {"buy"}, timestamp : {0}, amount : {1},
          price : {1000000}]
    \cup [mint : {"BONK"}, type : {"sell"}, timestamp : {20}, amount : {1},
          price : {600000}]

\* scoreWallet(walletAddress, delaySeconds, slippageModel)
FollowRequest(delaySeconds, slippageModel) ==
    /\ out = NoOutput
    /\ out' = [done |-> TRUE, delaySeconds |-> delaySeconds,
               slippageModel |-> slippageModel,
               result |-> simulateFollowReturns(getTradesForWallet(trades, tieOrder),
                                                delaySeconds, slippageModel)]
    /\ RetryUnchanged

NextFollow ==
    \/ \E in \in FollowTradeInputs : SummaryInsertTrade(in)
    \/ \E slippageModel \in {"conservative", "moderate"} : FollowRequest(5, slippageModel)

SpecFollow == Init /\ [][NextFollow]_vars

\* the earliest timestamp of the stored trades of a mint and type
FirstAt(tokenMint, type) ==
    CHOOSE t \in {trades[k].timestamp : k \in StoredOf(tokenMint, type, 0)} :
        \A k \in StoredOf(tokenMint, type, 0) : t <= trades[k].timestamp

\* the mints with at least one buy and one sell
RoundTripMints ==
    {m \in {"TOK", "BONK"} : StoredOf(m, "buy", 0) # {} /\ StoredOf(m, "sell", 0) # {}}

\* C18: every mint with a buy and a sell has one round trip whose score is 0.0, 0.2,
\* 0.5, 0.8 or 1.0 as its time to first sell is < 30, < 60, < 120, < 300 or >= 300
\* seconds, and whose simulated PnL is (simulated proceeds - simulated cost) * score; a
\* mint first sold less than 30 s after its first buy adds 0 to the simulated PnL and
\* is counted as quick dump and as unfollowable.
C18_FollowabilityScore ==
    (out # NoOutput /\ out.done) =>
        /\ {out.result.tokenBreakdown[k].tokenMint :
                k \in 1..Len(out.result.tokenBreakdown)} = RoundTripMints
        /\ Len(out.result.tokenBreakdown) = Cardinality(RoundTripMints)
        /\ \A k \in 1..Len(out.result.tokenBreakdown) :
             \E rt \in {out.result.tokenBreakdown[k]} :
               /\ rt.timeToFirstSellSec
                      = FirstAt(rt.tokenMint, "sell") - FirstAt(rt.tokenMint, "buy")
               /\ rt.timeToFirstSellSec < 30 => rt.followabilityScore = 0
               /\ (30 <= rt.timeToFirstSellSec /\ rt.timeToFirstSellSec < 60)
                      => rt.followabilityScore = 2
               /\ (60 <= rt.timeToFirstSellSec /\ rt.timeToFirstSellSec < 120)
                      => rt.followabilityScore = 5
               /\ (120 <= rt.timeToFirstSellSec /\ rt.timeToFirstSellSec < 300)
                      => rt.followabilityScore = 8
               /\ 300 <= rt.timeToFirstSellSec => rt.followabilityScore = 10
               /\ rt.simulatedPnL
                      = RatScale(RatSub(rt.simulatedProceeds, rt.simulatedCost),
                                 rt.followabilityScore, 10)
               /\ rt.timeToFirstSellSec < 30
                      => (rt.simulatedPnL = <<0, 1>> /\ ~rt.isFollowable)
        /\ out.result.quickDumpCount
               = Cardinality({m \in RoundTripMints :
                                  FirstAt(m, "sell") - FirstAt(m, "buy") < 60})
        /\ out.result.unfollowableTokens
               = Cardinality({m \in RoundTripMints :
                                  FirstAt(m, "sell") - FirstAt(m, "buy") < 60})
        /\ out.result.simulatedPnL = TotalSimulatedPnL(out.result.tokenBreakdown)

\* TOK is bought at second 0 and first sold at second 20, and also sold at second
\* 300: the round trip scores 0, adds nothing to the simulated PnL although proceeds
\* and cost differ, and is one quick dump and one unfollowable token
C18_Witness ==
    /\ out # NoOutput /\ out.done
    /\ Len(out.result.tokenBreakdown) = 1
    /\ out.result.tokenBreakdown[1].tokenMint = "TOK"
    /\ out.result.tokenBreakdown[1].timeToFirstSellSec = 20
    /\ out.result.tokenBreakdown[1].followabilityScore = 0
    /\ out.result.tokenBreakdown[1].simulatedProceeds
           # out.result.tokenBreakdown[1].simulatedCost
    /\ out.result.simulatedPnL = <<0, 1>>
    /\ out.result.quickDumpCount = 1
    /\ out.result.unfollowableTokens = 1
    /\ Len(trades) = 3


(***************************************************************************)
(* The strategy parseEnhancedTransaction returns (checked under SpecParser) *)
(***************************************************************************)
\* result is what the first of the three strategies with at least one trade returned
IsFirstStrategy(result, transferTrades, balanceChangeTrades, swapTrades) ==
    /\ transferTrades # <<>> => result = transferTrades
    /\ (transferTrades = <<>> /\ balanceChangeTrades # <<>>)
           => result = balanceChangeTrades
    /\ (transferTrades = <<>> /\ balanceChangeTrades = <<>> /\ swapTrades # <<>>)
           => result = swapTrades
    /\ (transferTrades = <<>> /\ balanceChangeTrades = <<>> /\ swapTrades = <<>>)
           => result = <<>>

\* C20: parseEnhancedTransaction returns no trade for a record with a transaction
\* error; otherwise it returns exactly the trades of the first strategy, in the order
\* token transfers, account-data balance changes, swap event, that yields a trade, and
\* never a mix of two strategies.
C20_FirstStrategyWins ==
    parsed.done =>
        IF tx.transactionError THEN parsed.trades = <<>>
        ELSE IsFirstStrategy(parsed.trades, parseFromTransfers(tx, W),
                             parseFromBalanceChanges(tx, W), parseFromSwapEvent(tx, W))

\* a record without error whose token transfers yield a trade while its swap event
\* yields a different one: the transfer trades are returned
C20_Witness ==
    /\ parsed.done
    /\ ~tx.transactionError
    /\ parseFromTransfers(tx, W) # <<>>
    /\ parseFromSwapEvent(tx, W) # <<>>
    /\ parseFromSwapEvent(tx, W) # parseFromTransfers(tx, W)
    /\ parsed.trades = parseFromTransfers(tx, W)


(***************************************************************************)
(* Order of the trade list passed to calculateFIFOPnL (under SpecFifo)     *)
(***************************************************************************)
\* the tables calculateFIFOPnL leaves when it is handed the trade list ts
TablesFrom(ts) == calculateFIFOPnL(<<<<>>, <<>>>>, ts, 0).tables

\* C21: within a mint the trades are processed by ascending timestamp, ties broken by
\* signature and side, so the positions and lots calculateFIFOPnL stores do not depend
\* on the order in which the trade list is passed in.
C21_OrderIndependent ==
    Rebuilt =>
        /\ Range(positions)
               = Range(TablesFrom(Reverse(getTradesForWallet(trades, tieOrder)))[1])
        /\ Range(lots)
               = Range(TablesFrom(Reverse(getTradesForWallet(trades, tieOrder)))[2])


\* buyLots as one sell step leaves them: a lot is touched only when every lot before
\* it is used up, and no lot holds less than nothing or more than it was bought with
OldestFirst(buyLots) ==
    /\ \A j \in 1..Len(buyLots) :
           /\ 0 <= buyLots[j].remaining
           /\ buyLots[j].remaining <= buyLots[j].amount
    /\ \A i, j \in 1..Len(buyLots) :
           (i < j /\ buyLots[j].remaining < buyLots[j].amount)
               => buyLots[i].remaining = 0

\* the buy lots of a mint after each of its sells, in processing order
SellStepsOldestFirst(sortedTrades) ==
    \A n \in 1..Len(sortedTrades) :
        sortedTrades[n].type = "sell"
            => OldestFirst(FifoLoop(FifoStart, SubSeq(sortedTrades, 1, n)).buyLots)

\* the example of C22 in thousandths of a SOL: buy 500 at 2, buy 500 at 4, sell 600
\* for 3000
LotExample ==
    <<TradeOfInput([mint |-> "TOK", type |-> "buy", timestamp |-> 10, amount |-> 500,
                    price |-> 2], 1),
      TradeOfInput([mint |-> "TOK", type |-> "buy", timestamp |-> 20, amount |-> 500,
                    price |-> 4], 2),
      TradeOfInput([mint |-> "TOK", type |-> "sell", timestamp |-> 30, amount |-> 600,
                    price |-> 5], 3)>>

\* C22: FIFO matching consumes the oldest lot with remaining > 0 first: after every
\* sell step a lot is partly or fully consumed only if every older lot of the mint has
\* remaining = 0, and 0 <= remaining <= amount for every lot; the example gives
\* matched cost 1400, PnL 1600 and the single open lot 400 at 4.
C22_OldestLotFirst ==
    /\ Rebuilt => \A tokenMint \in {"TOK", "BONK"} :
                      SellStepsOldestFirst(StoredTradesOf(tokenMint))
    /\ FifoLoop(FifoStart, LotExample).realizedPnL = 1600
    /\ SelectSeq(FifoLoop(FifoStart, LotExample).buyLots, HasRemaining)
           = <<[tradeId |-> TradeId(2, "buy", "TOK"), amount |-> 500, remaining |-> 400,
                price |-> 4, timestamp |-> 20]>>

\* two buys (1 token at price 1, then 2 tokens at price 3) and a sell of 2 tokens for
\* 4: the sell uses up the first lot and half of the second, matched cost 1 + 3 = 4,
\* PnL 0, and the single open lot is 1 of 2 tokens at price 3
C22_Witness ==
    /\ Rebuilt
    /\ Len(trades) = 3
    /\ Len(lots) = 1
    /\ lots[1].amount = 2 /\ lots[1].remaining_amount = 1
    /\ lots[1].price_per_token = 3
    /\ Len(positions) = 1
    /\ positions[1].totalBought = 3 /\ positions[1].totalSold = 2
    /\ positions[1].realizedPnL = 0


(***************************************************************************)
(* HeliusService.getAllSignaturesForAddress, page by page.  The RPC node   *)
(* answers a page with the signatures older than `before`; whether the     *)
(* `until` signature itself is part of the answer is left to the node.     *)
(***************************************************************************)
\* the page the node returns
ProviderPage(n, before, until, inclusive) ==
    getSignaturesForAddress(n, before,
                            IF inclusive /\ until > 0 THEN until - 1 ELSE until,
                            PageLimit)

\* getAllSignaturesForAddress(address, {until, maxSignatures}) is called on a wallet
\* with n signatures on chain
SignaturesRequest(n, until, inclusive) ==
    /\ out = NoOutput
    /\ chain' = n
    /\ out' = [done |-> FALSE, allSignatures |-> <<>>, until |-> until,
               inclusive |-> inclusive, pages |-> 0]
    /\ UNCHANGED <<wallet, transactions, trades, positions, lots, tieOrder, runs,
                   syncInProgress, requests, nreq, settled, lastSync, tx, parsed, fifo,
                   svc,
                launch>>

\* one iteration of the while loop: a page arrives
SignaturesPage ==
    /\ out # NoOutput
    /\ ~out.done
    /\ \E page \in {PageOf(out.allSignatures,
                           ProviderPage(chain,
                                        IF out.allSignatures = <<>> THEN 0
                                        ELSE out.allSignatures[Len(out.allSignatures)],
                                        out.until, out.inclusive),
                           out.until)} :
           out' = [out EXCEPT !.allSignatures = page.allSignatures,
                              !.done = page.last,
                              !.pages = out.pages + 1]
    /\ UNCHANGED <<chain, wallet, transactions, trades, positions, lots, tieOrder, runs,
                   syncInProgress, requests, nreq, settled, lastSync, tx, parsed, fifo,
                   svc,
                launch>>

\* the wallet transacts while its signatures are being paged
SignaturesChainGrow ==
    /\ out # NoOutput
    /\ ~out.done
    /\ chain < MaxSignatures + 3
    /\ chain' = chain + 1
    /\ UNCHANGED <<wallet, transactions, trades, positions, lots, tieOrder, runs,
                   syncInProgress, requests, nreq, settled, lastSync, tx, parsed, fifo,
                   out, svc,
                launch>>

NextSignatures ==
    \/ \E n \in 0..(MaxSignatures + 2), inclusive \in BOOLEAN :
           \E until \in 0..n : SignaturesRequest(n, until, inclusive)
    \/ SignaturesPage
    \/ SignaturesChainGrow

\* every page the service asks for arrives (or the call throws, which ends it too)
SpecSignatures == Init /\ [][NextSignatures]_vars /\ WF_vars(SignaturesPage)

\* what the finished call returned: at most maxSignatures signatures after at most
\* maxSignatures / 1000 pages, newest first without duplicates, all newer than until
SignaturesReturned(o) ==
    /\ Len(o.allSignatures) <= MaxSignatures
    /\ o.pages <= PageCap
    /\ \A i \in 1..Len(o.allSignatures) : o.allSignatures[i] > o.until
    /\ \A i, j \in 1..Len(o.allSignatures) :
           i < j => o.allSignatures[i] > o.allSignatures[j]

\* C23: getAllSignaturesForAddress always terminates (at the first empty or short
\* batch, at the batch holding `until`, or once maxSignatures are collected) and
\* returns at most maxSignatures signatures, newest first, without duplicates, none of
\* them `until` or older.
C23_PagingTerminates ==
    /\ []((out # NoOutput /\ out.done) => SignaturesReturned(out))
    /\ [](out # NoOutput => <>(out # NoOutput /\ out.done))

\* the cap ends the loop: more new signatures exist than maxSignatures and exactly
\* maxSignatures are returned
C23_Witness ==
    /\ out # NoOutput /\ out.done
    /\ Len(out.allSignatures) = MaxSignatures
    /\ out.pages = PageCap
    /\ chain - out.until > MaxSignatures


\* the stored sells from periodStart on
PeriodSells(periodStart) ==
    {k \in 1..Len(trades) : trades[k].type = "sell" /\ trades[k].timestamp >= periodStart}

\* those whose contribution sol_amount - token_amount * lifetime average is positive
WinningSells(periodStart) ==
    {k \in PeriodSells(periodStart) :
        RatSub(<<trades[k].solAmount, 1>>,
               RatMul(trades[k].tokenAmount, LifetimeAverage(trades[k].tokenMint)))[1] > 0}

\* C24: in a period summary winCount is the number of in-period sells with a positive
\* contribution and lossCount the number of the other in-period sells, so that
\* winCount + lossCount = totalSells, and winRate = winCount / totalSells * 100 lies
\* in [0, 100].
C24_WinLossCounts ==
    (out # NoOutput /\ out.done) =>
        \E periodStart \in {PeriodStart(out.timeframe, out.now)} :
            /\ out.summary.totalSells = Cardinality(PeriodSells(periodStart))
            /\ out.summary.counts.winCount = Cardinality(WinningSells(periodStart))
            /\ out.summary.counts.lossCount
                   = Cardinality(PeriodSells(periodStart) \ WinningSells(periodStart))
            /\ out.summary.counts.winCount + out.summary.counts.lossCount
                   = out.summary.totalSells
            /\ WinRate(out.summary.counts.winCount, out.summary.totalSells)[1] >= 0
            /\ WinRate(out.summary.counts.winCount, out.summary.totalSells)[1]
                   <= 100 * WinRate(out.summary.counts.winCount,
                                    out.summary.totalSells)[2]


(***************************************************************************)
(* The profiler's launch table (under SpecCatalog)                         *)
(***************************************************************************)
\* the mints a stored raw transaction moves
MintsOfTx(sig) ==
    {TxOf(sig).tokenTransfers[i].mint : i \in 1..Len(TxOf(sig).tokenTransfers)}

\* for every mint the earliest signature and timestamp among the raw transactions
LaunchesOf(stored) ==
    {[mint |-> m, first_signature |-> sig, first_timestamp |-> TsOf(sig)] :
        <<m, sig>> \in {ms \in (UNION {MintsOfTx(x) : x \in stored}) \X stored :
                            /\ ms[1] \in MintsOfTx(ms[2])
                            /\ \A x \in stored : ms[1] \in MintsOfTx(x) => ms[2] <= x}}

\* C25: the launch table buildWalletProfile uses holds, for every mint, the earliest
\* (signature, timestamp) observed across all raw transactions stored at the call, also
\* right after a sync that stored new raw transactions.
C25_LaunchTableFresh ==
    (out # NoOutput /\ out.done) => out.launchMap = LaunchesOf(out.stored)


(***************************************************************************)
(* Two tracked wallets on one store (SpecShared)                           *)
(***************************************************************************)
Wallets == {W, O}
SharedSigs == {1, 2, 3}

\* transactions that involve both wallets and a pool P: in 1 both buy TOK, in 2 W buys
\* TOK and O sells TOK, in 3 both sell TOK
SharedTx(sig) ==
    [signature |-> sig, timestamp |-> TsOf(sig), transactionError |-> FALSE,
     accountData |-> <<>>, swap |-> NoSwap,
     nativeTransfers |->
        <<[fromUserAccount |-> IF sig = 3 THEN "P" ELSE W,
           toUserAccount |-> IF sig = 3 THEN W ELSE "P", amount |-> 2000000],
          [fromUserAccount |-> IF sig = 1 THEN O ELSE "P",
           toUserAccount |-> IF sig = 1 THEN "P" ELSE O, amount |-> 1000000]>>,
     tokenTransfers |->
        <<[fromUserAccount |-> IF sig = 3 THEN W ELSE "P",
           toUserAccount |-> IF sig = 3 THEN "P" ELSE W,
           mint |-> "TOK", tokenAmount |-> 1000],
          [fromUserAccount |-> IF sig = 1 THEN "P" ELSE O,
           toUserAccount |-> IF sig = 1 THEN O ELSE "P",
           mint |-> "TOK", tokenAmount |-> 500]>>]

\* INSERT OR IGNORE INTO transactions: signature is the primary key
insertTransaction(rows, signature, walletAddress) ==
    IF \E r \in rows : r.signature = signature THEN rows
    ELSE rows \cup {[signature |-> signature, wallet_address |-> walletAddress]}

\* the insertTx transaction of a sync of walletAddress whose new signature is sig, on
\* the tables both wallets share; synced records which wallet was synced over which
\* signature
SaveShared(walletAddress, sig) ==
    /\ out = NoOutput \/ out.done
    /\ \E o \in {IF out = NoOutput
                 THEN [done |-> TRUE, transactions |-> {}, trades |-> <<>>, synced |-> {}]
                 ELSE out} :
          out' = [o EXCEPT
                    !.transactions = insertTransaction(@, sig, walletAddress),
                    !.trades = insertTrades(@, parseEnhancedTransaction(SharedTx(sig),
                                                                        walletAddress)),
                    !.synced = @ \cup {<<walletAddress, sig>>}]
    /\ RetryUnchanged

NextShared == \E walletAddress \in Wallets, sig \in SharedSigs : SaveShared(walletAddress, sig)

SpecShared == Init /\ [][NextShared]_vars

\* SELECT * FROM trades WHERE wallet_address = ?
TradesOfWallet(rows, walletAddress) ==
    {rows[i] : i \in {j \in 1..Len(rows) : rows[j].walletAddress = walletAddress}}

\* the trades parsed for a wallet over the signatures it was synced over
ParsedFor(synced, walletAddress) ==
    UNION {Range(parseEnhancedTransaction(SharedTx(x[2]), walletAddress)) :
              x \in {y \in synced : y[1] = walletAddress}}

\* C26: after any sequence of syncs the trade rows stored for each wallet are exactly
\* the trades parsed for that wallet, also when one signature involves both wallets
\* with the same side and mint: a sync of one wallet never replaces or re-assigns a row
\* of the other.
C26_WalletIsolation ==
    (out # NoOutput /\ out.done) =>
        \A walletAddress \in Wallets :
            TradesOfWallet(out.trades, walletAddress) = ParsedFor(out.synced, walletAddress)


(***************************************************************************)
(* Ingestion and rollup of a sync over a long history (under SpecCatalog)  *)
(***************************************************************************)
\* C27: after a successful incremental sync every signature newer than the previously
\* stored last_signature and not newer than the newly stored one has a row in the
\* transactions table, also when more new signatures exist than one sync fetches.
C27_NoIngestionGap ==
    [][(wallet.exists /\ wallet.last_signature # 0 /\ wallet'.exists
            /\ wallet'.last_signature > wallet.last_signature)
       => \A sig \in (wallet.last_signature + 1)..wallet'.last_signature :
              sig \in transactions']_vars

\* sum of realized_pnl over the stored positions
TotalFifoPnL(rows) == SumSeq([i \in 1..Len(rows) |-> rows[i].realizedPnL])

\* C28: after a completed sync the wallet's total_realized_pnl equals the sum of
\* realized_pnl over the positions the same run stored.
C28_RollupIsFifoSum ==
    [][(nreq' # nreq /\ wallet'.exists /\ wallet'.total_realized_pnl # <<>>
            /\ Rollups(wallet') # Rollups(wallet))
       => wallet'.total_realized_pnl = <<TotalFifoPnL(positions'), 1>>]_vars


(***************************************************************************)
(* The in-flight map and the status endpoint (under Spec)                  *)
(***************************************************************************)
\* GET /:address/status: isSyncing = syncInProgress.has(address)
isSyncing == syncInProgress # 0

\* the runs in flight that the analyze endpoint started
AnalyzeRuns == {r \in InFlightRuns : runs[r].kind = "analyze"}

\* C29: syncInProgress holds an entry for the address exactly while a run started by
\* the analyze endpoint is in flight, and the entry is that of a run still in flight: a
\* finishing run never removes the entry of another running run, so isSyncing is never
\* false while such a run is in flight.
C29_InFlightMapExact ==
    /\ isSyncing <=> AnalyzeRuns # {}
    /\ isSyncing => syncInProgress \in AnalyzeRuns


(***************************************************************************)
(* SOL attributed to the trades of one transaction (under SpecParser)      *)
(***************************************************************************)
\* solDelta of parseFromTransfers: native transfers plus the WSOL flow
TransferSolDelta(t, walletAddress) ==
    NativeSolDelta(t.nativeTransfers, walletAddress)
        + MapGet(TokenDeltas(t.tokenTransfers, walletAddress, <<>>), WSOL_MINT)

\* the wallet's net SOL change as the strategy that produced the trades reads it
NetSolChange(t, walletAddress) ==
    IF parseFromTransfers(t, walletAddress) # <<>>
    THEN TransferSolDelta(t, walletAddress)
    ELSE IF parseFromBalanceChanges(t, walletAddress) # <<>>
         THEN AccountSolChange(t.accountData, walletAddress)
         ELSE IF t.swap = NoSwap THEN 0
              ELSE ToSol(t.swap.nativeOutput) - ToSol(t.swap.nativeInput)

TotalSolAmount(ts) == SumSeq([i \in 1..Len(ts) |-> ts[i].solAmount])

\* C30: for a transaction with a non-zero net SOL change of the wallet, the sol_amount
\* of all trades the parser emits for it add up to at most the magnitude of that
\* change, whichever strategy produced them and however many mints changed balance.
C30_SolCountedOnce ==
    (parsed.done /\ NetSolChange(tx, W) # 0)
        => TotalSolAmount(parsed.trades) <= Abs(NetSolChange(tx, W))

====
